---- MODULE Spec2Model ----
(***************************************************************************)
(* State-machine model of the terranames auction contract                  *)
(* (contracts/terranames_auction) and of the rent arithmetic it uses        *)
(* (packages/terranames/src/auction.rs).                                    *)
(*                                                                          *)
(* One action models one entry point (instantiate, the five ExecuteMsg      *)
(* handlers) plus the advance of the block time.  A handler that fails      *)
(* leaves the storage as it was; the outcome of the last invocation is      *)
(* kept in `last`, the storage it ran on in `before`.                       *)
(***************************************************************************)
EXTENDS Integers, Sequences, FiniteSets, TLC

(***************************************************************************)
(* Bounds of the model.  Block time advances in steps of Tick seconds up    *)
(* to MaxTicks steps; rates and attached funds are drawn from 0..MaxRate    *)
(* and 0..MaxFunds.                                                         *)
(***************************************************************************)
Tick == 21600
MaxTicks == 4
MaxRate == 2
MaxFunds == 2

(* Rate is provided as number of stablecoins per day. *)
RATE_SEC_DENOM == 86400

(* The model checker's integers are 32 bits wide, so where the width of
   u128 matters it is modelled UintBits wide: an operation overflows in the
   model when its result exceeds UintMax, as it does in the code when it
   exceeds 2^128 - 1. *)
UintBits == 24
UintMax == 2 ^ UintBits - 1

(* Decimal has 18 fractional digits in the code (its denominator is
   10^18); for the same reason it has DecimalDigits of them in the model. *)
DecimalDigits == 1
DECIMAL_FRACTIONAL == 10 ^ DecimalDigits

(* Bounds of the root collector's model: tokens per Stake, UnstakeTokens
   and WithdrawTokens, tokens staked by all accounts over the lifetime of
   the contract, stablecoins per Deposit and over all deposits, the blocks
   of the collector's chain and the unstake delay in ticks. *)
MaxStake == 1
MaxStakedIn == 3
MaxAttached == 2
MaxDeposited == 3
MaxCollectorTicks == 2
UnstakeDelayTicks == 1
MaxUnstakeDelayTicks == 2

(* Bounds of the stored names of GetAllNameStates: the bytes a name is
   made of (NUL is the byte calc_range_start_str appends) and the length
   of a name. *)
MaxNameLen == 3
MaxStartAfterLen == 2
NameBytes == {0, 97, 98}

(* Option<T>: None is the empty sequence, Some(x) the one-element one. *)
None == << >>
Some(x) == << x >>
IsSome(o) == Len(o) = 1
Unwrap(o) == o[1]

Addrs == {"bidder_1", "bidder_2", "bidder_3"}
Names == {"example"}
Rates == 0 .. MaxRate
Funds == 0 .. MaxFunds
MaxTime == MaxTicks * Tick

VARIABLES
    config,       \* Option<Config>: the singleton under CONFIG_KEY
    name_states,  \* the bucket NAME_STATE_PREFIX: a function name -> NameState
    now,          \* env.block.time in seconds
    last,         \* the last invocation: its message, sender, funds and response
    before,       \* name_states as the last invocation found it
    chain,        \* history: how far a SetNameRate / outbid / re-win chain got
    name_values,  \* the resolver's bucket VALUE_PREFIX: name -> Option<String>
    collector_config,  \* root collector: Option<Config> under CONFIG_KEY
    collector_state,   \* root collector: the State under STATE_KEY
    stake_states,      \* root collector: bucket STAKE_STATE_PREFIX
    collector_last,    \* the last invocation of the root collector
    collector_before,  \* State and stake states as that invocation found them
    ledger,            \* history: stablecoins and tokens moved in and out
    probe              \* a query being followed: its inputs and what it returned

collector_vars ==
    << collector_config, collector_state, stake_states, collector_last,
       collector_before, ledger >>

vars ==
    << config, name_states, now, last, before, chain, name_values,
       collector_vars, probe >>

(***************************************************************************)
(* packages/terranames/src/auction.rs: rent arithmetic.                     *)
(* Uint128::multiply_ratio(n, d) is floor(self * n / d).                    *)
(***************************************************************************)
multiply_ratio(self, n, d) == (self * n) \div d

deposit_from_seconds_floor(seconds, rate) ==
    multiply_ratio(rate, seconds, RATE_SEC_DENOM)

deposit_from_seconds_ceil(seconds, rate) ==
    LET a == seconds * rate + RATE_SEC_DENOM - 1
    IN  multiply_ratio(1, a, RATE_SEC_DENOM)

(* Mutant: a zero rate buys zero seconds instead of an unlimited lease. *)
seconds_from_deposit_zero_rate(deposit, rate) ==
    IF rate = 0
    THEN Some(0)
    ELSE Some(multiply_ratio(deposit, RATE_SEC_DENOM, rate))

seconds_from_deposit(deposit, rate) ==
    IF rate = 0
    THEN None
    ELSE Some(multiply_ratio(deposit, RATE_SEC_DENOM, rate))

saturating_sub(a, b) == IF a >= b THEN a - b ELSE 0

(***************************************************************************)
(* contracts/terranames_auction/src/state.rs: NameState and OwnerStatus.    *)
(***************************************************************************)
NameState(owner, controller, transition_reference_time, rate, begin_time, begin_deposit, previous_owner, previous_transition_reference_time) ==
    [ owner |-> owner,
      controller |-> controller,
      transition_reference_time |-> transition_reference_time,
      rate |-> rate,
      begin_time |-> begin_time,
      begin_deposit |-> begin_deposit,
      previous_owner |-> previous_owner,
      previous_transition_reference_time |-> previous_transition_reference_time ]

(* Timestamp::checked_sub: None when the result would be negative. *)
checked_sub(a, b) == IF a >= b THEN Some(a - b) ELSE None

seconds_spent_since_bid(self, current_time) ==
    checked_sub(current_time, self.begin_time)

seconds_spent_since_transition(self, current_time) ==
    checked_sub(current_time, self.transition_reference_time)

counter_delay_end(self, cfg) == self.begin_time + cfg.counter_delay_secs

transition_delay_end(self, cfg) ==
    IF self.transition_reference_time = 0
    THEN self.begin_time
    ELSE self.transition_reference_time + cfg.counter_delay_secs
            + cfg.transition_delay_secs

bid_delay_end(self, cfg) ==
    LET delay == IF self.rate # 0
                 THEN cfg.counter_delay_secs + cfg.bid_delay_secs
                 ELSE 0
    IN  self.begin_time + delay

max_seconds(self) == seconds_from_deposit(self.begin_deposit, self.rate)

expire_time(self) ==
    IF IsSome(max_seconds(self))
    THEN Some(self.begin_time + Unwrap(max_seconds(self)))
    ELSE None

(* The operator - of Uint128 aborts the invocation when the result would be
   negative: a function using it either returns a value or aborts. *)
Returned(value) == [ aborted |-> FALSE, value |-> value ]
Aborted == [ aborted |-> TRUE, value |-> 0 ]

uint128_sub(a, b) == IF a >= b THEN Returned(a - b) ELSE Aborted

(* Return current remaining deposit *)
current_deposit(self, current_time) ==
    LET seconds_spent == seconds_spent_since_bid(self, current_time)
    IN  IF ~IsSome(seconds_spent)
        THEN Returned(0)
        ELSE uint128_sub(self.begin_deposit,
                         deposit_from_seconds_ceil(Unwrap(seconds_spent),
                                                   self.rate))

(* Mutant: the cap is rounded up. *)
max_allowed_deposit_ceil(self, cfg, current_time) ==
    LET spent == seconds_spent_since_bid(self, current_time)
    IN  IF ~IsSome(spent)
        THEN 0
        ELSE deposit_from_seconds_ceil(cfg.max_lease_secs + Unwrap(spent),
                                       self.rate)

max_allowed_deposit(self, cfg, current_time) ==
    LET spent == seconds_spent_since_bid(self, current_time)
    IN  IF ~IsSome(spent)
        THEN 0
        ELSE deposit_from_seconds_floor(cfg.max_lease_secs + Unwrap(spent),
                                        self.rate)

StatusExpired(expire, transition_reference_time) ==
    [ kind |-> "Expired", expire_time |-> expire,
      transition_reference_time |-> transition_reference_time ]

StatusCounterDelay(name_owner, bid_owner, transition_reference_time) ==
    [ kind |-> "CounterDelay", name_owner |-> name_owner,
      bid_owner |-> bid_owner,
      transition_reference_time |-> transition_reference_time ]

StatusTransitionDelay(owner, transition_reference_time) ==
    [ kind |-> "TransitionDelay", owner |-> owner,
      transition_reference_time |-> transition_reference_time ]

StatusValid(owner, transition_reference_time) ==
    [ kind |-> "Valid", owner |-> owner,
      transition_reference_time |-> transition_reference_time ]

(* Mutant: the transition delay is tested before the counter delay. *)
owner_status_transition_first(self, cfg, current_time) ==
    LET since_bid == seconds_spent_since_bid(self, current_time)
        since_transition == seconds_spent_since_transition(self, current_time)
    IN  IF ~IsSome(since_bid)
        THEN StatusExpired(0, self.transition_reference_time)
        ELSE IF IsSome(max_seconds(self))
                /\ Unwrap(since_bid) >= Unwrap(max_seconds(self))
        THEN StatusExpired(self.begin_time + Unwrap(max_seconds(self)),
                           self.transition_reference_time)
        ELSE IF ~IsSome(since_transition)
        THEN StatusExpired(0, self.transition_reference_time)
        ELSE IF Unwrap(since_transition)
                    < cfg.counter_delay_secs + cfg.transition_delay_secs
        THEN StatusTransitionDelay(self.owner, self.transition_reference_time)
        ELSE IF Unwrap(since_bid) < cfg.counter_delay_secs
        THEN StatusCounterDelay(self.previous_owner, self.owner,
                                self.previous_transition_reference_time)
        ELSE StatusValid(self.owner, self.transition_reference_time)

owner_status(self, cfg, current_time) ==
    LET since_bid == seconds_spent_since_bid(self, current_time)
        since_transition == seconds_spent_since_transition(self, current_time)
    IN  IF ~IsSome(since_bid)
        THEN StatusExpired(0, self.transition_reference_time)
        ELSE IF IsSome(max_seconds(self))
                /\ Unwrap(since_bid) >= Unwrap(max_seconds(self))
        THEN StatusExpired(self.begin_time + Unwrap(max_seconds(self)),
                           self.transition_reference_time)
        ELSE IF ~IsSome(since_transition)
        THEN StatusExpired(0, self.transition_reference_time)
        ELSE IF Unwrap(since_bid) < cfg.counter_delay_secs
        THEN StatusCounterDelay(self.previous_owner, self.owner,
                                self.previous_transition_reference_time)
        ELSE IF Unwrap(since_transition)
                    < cfg.counter_delay_secs + cfg.transition_delay_secs
        THEN StatusTransitionDelay(self.owner, self.transition_reference_time)
        ELSE StatusValid(self.owner, self.transition_reference_time)

(* Mutant: the bid holder may also set the rate during the counter delay. *)
can_set_rate_bid_owner(status, sender) ==
    IF status.kind \in {"Valid", "TransitionDelay"}
    THEN sender = status.owner
    ELSE IF status.kind = "CounterDelay"
    THEN sender = status.bid_owner
    ELSE FALSE

(* Mutant: the name owner may set the rate during the counter delay. *)
can_set_rate_name_owner(status, sender) ==
    IF status.kind \in {"Valid", "TransitionDelay"}
    THEN sender = status.owner
    ELSE IF status.kind = "CounterDelay" /\ IsSome(status.name_owner)
    THEN sender = Unwrap(status.name_owner)
    ELSE FALSE

can_set_rate(status, sender) ==
    IF status.kind \in {"Valid", "TransitionDelay"}
    THEN sender = status.owner
    ELSE FALSE

can_transfer_name_owner(status, sender) ==
    IF status.kind \in {"Valid", "TransitionDelay"}
    THEN sender = status.owner
    ELSE IF status.kind = "CounterDelay" /\ IsSome(status.name_owner)
    THEN sender = Unwrap(status.name_owner)
    ELSE FALSE

can_transfer_bid_owner(status, sender) ==
    IF status.kind = "CounterDelay"
    THEN sender = status.bid_owner
    ELSE FALSE

(* Mutant: in the counter delay the bid holder sets the controller. *)
can_set_controller_bid_owner(status, sender) ==
    IF status.kind \in {"Valid", "TransitionDelay"}
    THEN sender = status.owner
    ELSE IF status.kind = "CounterDelay"
    THEN sender = status.bid_owner
    ELSE FALSE

can_set_controller(status, sender) ==
    IF status.kind \in {"Valid", "TransitionDelay"}
    THEN sender = status.owner
    ELSE IF status.kind = "CounterDelay" /\ IsSome(status.name_owner)
    THEN sender = Unwrap(status.name_owner)
    ELSE FALSE

(* bucket(storage, NAME_STATE_PREFIX).may_load / save *)
read_option_name_state(storage, name) ==
    IF name \in DOMAIN storage THEN Some(storage[name]) ELSE None

store_name_state(storage, name, name_info) ==
    [ n \in (DOMAIN storage) \cup {name} |->
        IF n = name THEN name_info ELSE storage[n] ]

(***************************************************************************)
(* contracts/terranames_auction/src/contract.rs: the handlers.              *)
(*                                                                          *)
(* info is MessageInfo: [sender, funds], funds being the amount of          *)
(* config.stable_denom attached (get_sent_funds; zero when none is).        *)
(* A handler returns its response: the error (or "Ok"), the error's         *)
(* argument, the NameState it stores and the bank messages it emits         *)
(* (amounts before tax deduction).                                          *)
(***************************************************************************)
COLLECTOR == "collector"

MessageInfo(sender, funds) == [ sender |-> sender, funds |-> funds ]

get_sent_funds(info) == info.funds

BankSend(to, amount) == [ to_address |-> to, amount |-> amount ]

refund_deposit_msg(to, amount) == BankSend(to, amount)

send_to_collector_msg(cfg, amount) == BankSend(cfg.collector_addr, amount)

ResponseOk(name_state, messages) ==
    [ err |-> "Ok", arg |-> 0, store |-> Some(name_state),
      messages |-> messages ]

Fail(err, arg) ==
    [ err |-> err, arg |-> arg, store |-> None, messages |-> << >> ]

(* instantiate: the config stored, or InvalidConfig *)
instantiate_invalid(msg) == ~(msg.min_lease_secs <= msg.max_lease_secs)

instantiate_config(msg) ==
    [ collector_addr |-> msg.collector_addr,
      min_lease_secs |-> msg.min_lease_secs,
      max_lease_secs |-> msg.max_lease_secs,
      counter_delay_secs |-> msg.counter_delay_secs,
      transition_delay_secs |-> msg.transition_delay_secs,
      bid_delay_secs |-> msg.bid_delay_secs ]

(* Mutant: the bid delay also covers its last instant. *)
closed_for_bids_inclusive(seconds_spent, cfg, name_state) ==
    /\ seconds_spent >= cfg.counter_delay_secs
    /\ seconds_spent <= cfg.counter_delay_secs + cfg.bid_delay_secs
    /\ name_state.rate # 0

(* execute_bid_existing, the bid-delay check *)
closed_for_bids(seconds_spent, cfg, name_state) ==
    /\ seconds_spent >= cfg.counter_delay_secs
    /\ seconds_spent < cfg.counter_delay_secs + cfg.bid_delay_secs
    /\ name_state.rate # 0

(* Mutant: a bid at the current rate is accepted. *)
bid_rate_too_low_strict(rate, name_state) == rate < name_state.rate

(* execute_bid_existing, the rate check *)
bid_rate_too_low(rate, name_state) == rate <= name_state.rate

(* Mutant: the rent spent by the outbid holder is rounded down. *)
bid_deposit_left_floor(seconds_spent, name_state) ==
    LET deposit_spent == deposit_from_seconds_floor(seconds_spent,
                                                    name_state.rate)
    IN  saturating_sub(name_state.begin_deposit, deposit_spent)

(* execute_bid_existing, the deposit left to the outbid holder *)
bid_deposit_left(seconds_spent, name_state) ==
    LET deposit_spent == deposit_from_seconds_ceil(seconds_spent,
                                                   name_state.rate)
    IN  saturating_sub(name_state.begin_deposit, deposit_spent)

bid_deposit_too_low(msg_deposit, deposit_left) == msg_deposit <= deposit_left

(* Mutant: a counter-bid's deposit is not checked against the upper
   bound. *)
bid_existing_invalid_interval_no_upper(msg_deposit, cfg, rate) ==
    LET min_deposit == deposit_from_seconds_ceil(cfg.min_lease_secs, rate)
    IN  msg_deposit < min_deposit

bid_existing_invalid_interval(msg_deposit, cfg, rate) ==
    LET min_deposit == deposit_from_seconds_ceil(cfg.min_lease_secs, rate)
        max_deposit == deposit_from_seconds_floor(cfg.max_lease_secs, rate)
    IN  msg_deposit < min_deposit \/ msg_deposit > max_deposit

(* Mutant: every bid restarts the transition. *)
bid_transition_reference_time_restart(new_owner, owner, current_time, previous_transition_reference_time) ==
    current_time

(* Only update transition reference time if ownership is assigned to a new
   owner. *)
bid_transition_reference_time(new_owner, owner, current_time, previous_transition_reference_time) ==
    IF Some(new_owner) # owner
    THEN current_time
    ELSE previous_transition_reference_time

(* Mutant: the outbid bid holder becomes the previous owner. *)
bid_previous_owner_outbid_holder(name_state, owner) == Some(name_state.owner)

(* name_state.previous_owner = owner.clone() *)
bid_previous_owner(name_state, owner) == owner

(* Mutant: the record of a counter-bid keeps the begin_time it had. *)
bid_existing_update_keeping_begin_time(name_state, info, rate, current_time, owner, transition_reference_time) ==
    NameState(info.sender,
              name_state.controller,
              bid_transition_reference_time(info.sender, owner, current_time,
                                            transition_reference_time),
              rate,
              name_state.begin_time,
              get_sent_funds(info),
              bid_previous_owner(name_state, owner),
              transition_reference_time)

(* Mutant: a bid that takes the name over resets the controller. *)
bid_existing_update_clearing_controller(name_state, info, rate, current_time, owner, transition_reference_time) ==
    NameState(info.sender,
              IF Some(info.sender) # owner THEN None
              ELSE name_state.controller,
              bid_transition_reference_time(info.sender, owner, current_time,
                                            transition_reference_time),
              rate,
              current_time,
              get_sent_funds(info),
              bid_previous_owner(name_state, owner),
              transition_reference_time)

bid_existing_update(name_state, info, rate, current_time, owner, transition_reference_time) ==
    NameState(info.sender,
              name_state.controller,
              bid_transition_reference_time(info.sender, owner, current_time,
                                            transition_reference_time),
              rate,
              current_time,
              get_sent_funds(info),
              bid_previous_owner(name_state, owner),
              transition_reference_time)

bid_existing_messages(cfg, previous_bidder, deposit_left, msg_deposit) ==
    LET refund == IF deposit_left # 0
                  THEN << refund_deposit_msg(previous_bidder, deposit_left) >>
                  ELSE << >>
        excess_deposit == msg_deposit - deposit_left
    IN  refund \o << send_to_collector_msg(cfg, excess_deposit) >>

execute_bid_existing(cfg, current_time, info, rate, name_state, owner, transition_reference_time) ==
    LET seconds_spent == Unwrap(seconds_spent_since_bid(name_state,
                                                        current_time))
        msg_deposit == get_sent_funds(info)
        deposit_left == bid_deposit_left(seconds_spent, name_state)
    IN  IF info.sender = name_state.owner
        THEN Fail("Unauthorized", 0)
        ELSE IF closed_for_bids(seconds_spent, cfg, name_state)
        THEN Fail("ClosedForBids", 0)
        ELSE IF bid_rate_too_low(rate, name_state)
        THEN Fail("BidRateTooLow", name_state.rate)
        ELSE IF bid_deposit_too_low(msg_deposit, deposit_left)
        THEN Fail("BidDepositTooLow", deposit_left)
        ELSE IF bid_existing_invalid_interval(msg_deposit, cfg, rate)
        THEN Fail("BidInvalidInterval", 0)
        ELSE ResponseOk(
                bid_existing_update(name_state, info, rate, current_time,
                                    owner, transition_reference_time),
                bid_existing_messages(cfg, name_state.owner, deposit_left,
                                      msg_deposit))

(* Mutant: the lower bound is rounded down. *)
bid_new_invalid_interval_floor_min(msg_deposit, cfg, rate) ==
    LET min_deposit == deposit_from_seconds_floor(cfg.min_lease_secs, rate)
        max_deposit == deposit_from_seconds_floor(cfg.max_lease_secs, rate)
    IN  msg_deposit < min_deposit \/ msg_deposit > max_deposit

bid_new_invalid_interval(msg_deposit, cfg, rate) ==
    LET min_deposit == deposit_from_seconds_ceil(cfg.min_lease_secs, rate)
        max_deposit == deposit_from_seconds_floor(cfg.max_lease_secs, rate)
    IN  msg_deposit < min_deposit \/ msg_deposit > max_deposit

(* Mutant: the transition of a fresh record is anchored at the bid. *)
bid_new_state_anchored_at_bid(info, rate, begin_time, transition_reference_time) ==
    NameState(info.sender, None, begin_time, rate, begin_time,
              get_sent_funds(info), None, 0)

bid_new_state(info, rate, begin_time, transition_reference_time) ==
    NameState(info.sender, None, transition_reference_time, rate, begin_time,
              get_sent_funds(info), None, 0)

bid_new_messages(cfg, msg_deposit) ==
    IF msg_deposit # 0
    THEN << send_to_collector_msg(cfg, msg_deposit) >>
    ELSE << >>

execute_bid_new(cfg, current_time, info, rate, transition_reference_time) ==
    LET msg_deposit == get_sent_funds(info)
    IN  IF bid_new_invalid_interval(msg_deposit, cfg, rate)
        THEN Fail("BidInvalidInterval", 0)
        ELSE ResponseOk(
                bid_new_state(info, rate, current_time,
                              transition_reference_time),
                bid_new_messages(cfg, msg_deposit))

execute_bid(storage, cfg, current_time, info, name, rate) ==
    LET loaded == read_option_name_state(storage, name)
    IN  IF IsSome(loaded)
        THEN LET name_state == Unwrap(loaded)
                 status == owner_status(name_state, cfg, current_time)
             IN  IF status.kind \in {"Valid", "TransitionDelay"}
                 THEN execute_bid_existing(cfg, current_time, info, rate,
                          name_state, Some(status.owner),
                          status.transition_reference_time)
                 ELSE IF status.kind = "CounterDelay"
                 THEN execute_bid_existing(cfg, current_time, info, rate,
                          name_state, status.name_owner,
                          status.transition_reference_time)
                 ELSE execute_bid_new(cfg, current_time, info, rate,
                                      status.expire_time)
        ELSE execute_bid_new(cfg, current_time, info, rate, 0)

(* Mutant: the cap is max_lease counted from the beginning of the lease. *)
fund_exceeds_max_from_begin(name_state, cfg, current_time, combined_deposit) ==
    combined_deposit
        > deposit_from_seconds_floor(cfg.max_lease_secs, name_state.rate)

fund_exceeds_max(name_state, cfg, current_time, combined_deposit) ==
    combined_deposit > max_allowed_deposit(name_state, cfg, current_time)

execute_fund(storage, cfg, current_time, info, name, owner) ==
    LET loaded == read_option_name_state(storage, name)
        msg_deposit == get_sent_funds(info)
    IN  IF ~IsSome(loaded)
        THEN Fail("Std", 0)
        ELSE LET name_state == Unwrap(loaded)
                 combined_deposit == msg_deposit + name_state.begin_deposit
             IN  IF msg_deposit = 0
                 THEN Fail("Unfunded", 0)
                 ELSE IF name_state.owner # owner
                 THEN Fail("UnexpectedState", 0)
                 ELSE IF fund_exceeds_max(name_state, cfg, current_time,
                                          combined_deposit)
                 THEN Fail("BidInvalidInterval", 0)
                 ELSE ResponseOk(
                         [name_state EXCEPT
                             !.begin_deposit = combined_deposit],
                         << send_to_collector_msg(cfg, msg_deposit) >>)

(* Mutant: the remaining deposit is not checked against the upper bound. *)
set_rate_invalid_interval_no_upper(new_deposit, cfg, rate) ==
    LET min_deposit == deposit_from_seconds_ceil(cfg.min_lease_secs, rate)
    IN  new_deposit < min_deposit

set_rate_invalid_interval(new_deposit, cfg, rate) ==
    LET min_deposit == deposit_from_seconds_ceil(cfg.min_lease_secs, rate)
        max_deposit == deposit_from_seconds_floor(cfg.max_lease_secs, rate)
    IN  new_deposit < min_deposit \/ new_deposit > max_deposit

(* Mutant: the rent spent so far is not charged. *)
set_rate_update_no_charge(name_state, rate, current_time, new_deposit) ==
    [name_state EXCEPT
        !.rate = rate,
        !.begin_time = current_time,
        !.previous_owner = Some(name_state.owner),
        !.previous_transition_reference_time =
            name_state.transition_reference_time]

(* Mutant: the previous transition reference is left as it was. *)
set_rate_update_keeps_previous_reference(name_state, rate, current_time, new_deposit) ==
    [name_state EXCEPT
        !.rate = rate,
        !.begin_time = current_time,
        !.begin_deposit = new_deposit,
        !.previous_owner = Some(name_state.owner)]

set_rate_update(name_state, rate, current_time, new_deposit) ==
    [name_state EXCEPT
        !.rate = rate,
        !.begin_time = current_time,
        !.begin_deposit = new_deposit,
        !.previous_owner = Some(name_state.owner),
        !.previous_transition_reference_time =
            name_state.transition_reference_time]

execute_set_rate(storage, cfg, current_time, info, name, rate) ==
    LET loaded == read_option_name_state(storage, name)
    IN  IF ~IsSome(loaded)
        THEN Fail("Std", 0)
        ELSE LET name_state == Unwrap(loaded)
                 status == owner_status(name_state, cfg, current_time)
                 seconds_spent == current_time - name_state.begin_time
                 spent_deposit == deposit_from_seconds_ceil(seconds_spent,
                                                            name_state.rate)
                 new_deposit == saturating_sub(name_state.begin_deposit,
                                               spent_deposit)
             IN  IF ~can_set_rate(status, info.sender)
                 THEN Fail("Unauthorized", 0)
                 ELSE IF set_rate_invalid_interval(new_deposit, cfg, rate)
                 THEN Fail("BidInvalidInterval", 0)
                 ELSE ResponseOk(
                         set_rate_update(name_state, rate, current_time,
                                         new_deposit),
                         << >>)

(* Mutant: a transfer always replaces owner, also in the counter delay. *)
transfer_owner_update_always_owner(name_state, status, sender, new_owner) ==
    IF can_transfer_name_owner(status, sender)
          \/ can_transfer_bid_owner(status, sender)
    THEN Some([name_state EXCEPT !.owner = new_owner])
    ELSE None

transfer_owner_update(name_state, status, sender, new_owner) ==
    IF can_transfer_name_owner(status, sender)
    THEN IF status.kind = "CounterDelay"
         THEN Some([name_state EXCEPT !.previous_owner = Some(new_owner)])
         ELSE Some([name_state EXCEPT !.owner = new_owner])
    ELSE IF can_transfer_bid_owner(status, sender)
    THEN Some([name_state EXCEPT !.owner = new_owner])
    ELSE None

execute_transfer_owner(storage, cfg, current_time, info, name, to) ==
    LET loaded == read_option_name_state(storage, name)
    IN  IF ~IsSome(loaded)
        THEN Fail("Std", 0)
        ELSE LET name_state == Unwrap(loaded)
                 status == owner_status(name_state, cfg, current_time)
                 updated == transfer_owner_update(name_state, status,
                                                  info.sender, to)
             IN  IF IsSome(updated)
                 THEN ResponseOk(Unwrap(updated), << >>)
                 ELSE Fail("Unauthorized", 0)

execute_set_controller(storage, cfg, current_time, info, name, controller) ==
    LET loaded == read_option_name_state(storage, name)
    IN  IF ~IsSome(loaded)
        THEN Fail("Std", 0)
        ELSE LET name_state == Unwrap(loaded)
                 status == owner_status(name_state, cfg, current_time)
             IN  IF ~can_set_controller(status, info.sender)
                 THEN Fail("Unauthorized", 0)
                 ELSE ResponseOk(
                         [name_state EXCEPT
                             !.controller = Some(controller)],
                         << >>)

(***************************************************************************)
(* The unchecked u128 arithmetic of the handlers.  deposit_from_seconds_ceil *)
(* computes seconds * rate + RATE_SEC_DENOM - 1 with the plain operators of  *)
(* u128, which abort the invocation when the result does not fit.  The      *)
(* predicates below say whether a handler reaches such an operation; they   *)
(* compare by division, so that the product itself is never formed.         *)
(***************************************************************************)
deposit_from_seconds_ceil_overflows(seconds, rate) ==
    /\ seconds # 0
    /\ rate > (UintMax - (RATE_SEC_DENOM - 1)) \div seconds

Abort == [ err |-> "Panic", arg |-> 0, store |-> None, messages |-> << >> ]

execute_bid_existing_overflows(cfg, current_time, info, rate, name_state) ==
    LET seconds_spent == Unwrap(seconds_spent_since_bid(name_state,
                                                        current_time))
        msg_deposit == get_sent_funds(info)
    IN  /\ info.sender # name_state.owner
        /\ ~closed_for_bids(seconds_spent, cfg, name_state)
        /\ ~bid_rate_too_low(rate, name_state)
        /\ \/ deposit_from_seconds_ceil_overflows(seconds_spent,
                                                  name_state.rate)
           \/ /\ ~bid_deposit_too_low(
                       msg_deposit,
                       bid_deposit_left(seconds_spent, name_state))
              /\ deposit_from_seconds_ceil_overflows(cfg.min_lease_secs,
                                                     rate)

execute_bid_new_overflows(cfg, rate) ==
    deposit_from_seconds_ceil_overflows(cfg.min_lease_secs, rate)

execute_bid_overflows(storage, cfg, current_time, info, name, rate) ==
    LET loaded == read_option_name_state(storage, name)
    IN  IF IsSome(loaded)
        THEN LET name_state == Unwrap(loaded)
                 status == owner_status(name_state, cfg, current_time)
             IN  IF status.kind = "Expired"
                 THEN execute_bid_new_overflows(cfg, rate)
                 ELSE execute_bid_existing_overflows(cfg, current_time, info,
                                                     rate, name_state)
        ELSE execute_bid_new_overflows(cfg, rate)

execute_set_rate_overflows(storage, cfg, current_time, info, name, rate) ==
    LET loaded == read_option_name_state(storage, name)
    IN  /\ IsSome(loaded)
        /\ LET name_state == Unwrap(loaded)
               status == owner_status(name_state, cfg, current_time)
               seconds_spent == current_time - name_state.begin_time
           IN  /\ can_set_rate(status, info.sender)
               /\ \/ deposit_from_seconds_ceil_overflows(seconds_spent,
                                                         name_state.rate)
                  \/ deposit_from_seconds_ceil_overflows(
                         cfg.min_lease_secs, rate)

(* query_name_state: the NameStateResponse, or None when the config or the
   record cannot be loaded. *)
query_name_state(storage, cfg_option, name) ==
    IF ~IsSome(cfg_option) \/ name \notin DOMAIN storage
    THEN None
    ELSE LET cfg == Unwrap(cfg_option)
             name_state == storage[name]
         IN  Some([ owner |-> name_state.owner,
                    controller |-> name_state.controller,
                    rate |-> name_state.rate,
                    begin_time |-> name_state.begin_time,
                    begin_deposit |-> name_state.begin_deposit,
                    previous_owner |-> name_state.previous_owner,
                    counter_delay_end |-> counter_delay_end(name_state, cfg),
                    transition_delay_end |->
                        transition_delay_end(name_state, cfg),
                    bid_delay_end |-> bid_delay_end(name_state, cfg),
                    expire_time |-> expire_time(name_state) ])

(* GetNameState as packages/terranames/src/auction.rs declares its response
   (NameStateResponse) and as the resolver reads it: the ownership is
   reported by phase, the remaining deposit is current_deposit.  The
   query aborts when current_deposit does. *)
name_state_response(name_state, cfg, current_time) ==
    LET status == owner_status(name_state, cfg, current_time)
    IN  [ name_owner |-> IF status.kind = "Expired"
                         THEN None
                         ELSE IF status.kind = "CounterDelay"
                         THEN status.name_owner
                         ELSE Some(status.owner),
          bid_owner |-> IF status.kind = "Expired"
                        THEN None
                        ELSE IF status.kind = "CounterDelay"
                        THEN Some(status.bid_owner)
                        ELSE Some(status.owner),
          controller |-> name_state.controller,
          rate |-> name_state.rate,
          begin_time |-> name_state.begin_time,
          begin_deposit |-> name_state.begin_deposit,
          current_deposit |-> current_deposit(name_state, current_time).value,
          counter_delay_end |-> counter_delay_end(name_state, cfg),
          transition_delay_end |-> transition_delay_end(name_state, cfg),
          bid_delay_end |-> bid_delay_end(name_state, cfg),
          expire_time |-> expire_time(name_state) ]

get_name_state(storage, cfg_option, current_time, name) ==
    IF ~IsSome(cfg_option) \/ name \notin DOMAIN storage
    THEN [ err |-> "Std", response |-> None ]
    ELSE IF current_deposit(storage[name], current_time).aborted
    THEN [ err |-> "Panic", response |-> None ]
    ELSE [ err |-> "Ok",
           response |-> Some(name_state_response(storage[name],
                                                 Unwrap(cfg_option),
                                                 current_time)) ]

(***************************************************************************)
(* contracts/terranames_resolver/src/contract.rs: SetNameValue.  The        *)
(* resolver asks the auction contract for the name state and stores the     *)
(* value under the name.                                                    *)
(***************************************************************************)
(* Mutant: a value may still be set at the expiry time itself. *)
set_value_name_expired_after(name_state, current_time) ==
    /\ IsSome(name_state.expire_time)
    /\ current_time > Unwrap(name_state.expire_time)

set_value_name_expired(name_state, current_time) ==
    /\ IsSome(name_state.expire_time)
    /\ current_time >= Unwrap(name_state.expire_time)

set_value_unauthorized(name_state, info) ==
    IF IsSome(name_state.controller)
    THEN info.sender # Unwrap(name_state.controller)
    ELSE TRUE

(* The error of execute_set_value, "Ok" when it stores the value *)
execute_set_value(queried, current_time, info) ==
    IF ~IsSome(queried)
    THEN "Std"
    ELSE IF set_value_unauthorized(Unwrap(queried), info)
    THEN "Unauthorized"
    ELSE IF set_value_name_expired(Unwrap(queried), current_time)
    THEN "NameExpired"
    ELSE "Ok"

store_name_value(storage, name, value) ==
    [ n \in (DOMAIN storage) \cup {name} |->
        IF n = name THEN value ELSE storage[n] ]

(***************************************************************************)
(* contracts/terranames_auction/src/state.rs: collect_name_states, the      *)
(* range query behind GetAllNameStates.  Keys are byte strings, compared    *)
(* byte by byte as the storage iterator does.                               *)
(***************************************************************************)
DEFAULT_LIMIT == 10
MAX_LIMIT == 30

RECURSIVE BytesLess(_, _)
BytesLess(a, b) ==
    IF b = << >> THEN FALSE
    ELSE IF a = << >> THEN TRUE
    ELSE IF a[1] # b[1] THEN a[1] < b[1]
    ELSE BytesLess(Tail(a), Tail(b))

(* Mutant: the start of the range is start_after itself. *)
calc_range_start_str_inclusive(start_after) == start_after

calc_range_start_str(start_after) ==
    IF IsSome(start_after)
    THEN Some(Append(Unwrap(start_after), 0))
    ELSE None

(* Order::Ascending over a set of keys *)
RECURSIVE Ascending(_)
Ascending(keys) ==
    IF keys = {} THEN << >>
    ELSE LET first == CHOOSE k \in keys :
                          \A other \in keys \ {k} : BytesLess(k, other)
         IN  << first >> \o Ascending(keys \ {first})

(* bucket.range(start, None, Order::Ascending): start is inclusive *)
range(storage, start) ==
    Ascending({ k \in DOMAIN storage :
                  ~IsSome(start) \/ ~BytesLess(k, Unwrap(start)) })

(* Iterator::take *)
take(items, limit) ==
    SubSeq(items, 1, IF limit < Len(items) THEN limit ELSE Len(items))

collect_name_states(storage, start_after, limit) ==
    LET start == calc_range_start_str(start_after)
        unwrapped == IF IsSome(limit) THEN Unwrap(limit) ELSE DEFAULT_LIMIT
        clamped == IF unwrapped < MAX_LIMIT THEN unwrapped ELSE MAX_LIMIT
    IN  take(range(storage, start), clamped)

(* contract.rs: query_all_name_states; of an item only the name is kept. *)
query_all_name_states(storage, cfg_option, start_after, limit) ==
    IF ~IsSome(cfg_option)
    THEN [ err |-> "Std", names |-> << >> ]
    ELSE [ err |-> "Ok",
           names |-> collect_name_states(storage, start_after, limit) ]

(***************************************************************************)
(* contracts/terranames_root_collector/src/state.rs: State, StakeState and  *)
(* the folding of dividends and of unstaked tokens.  A Decimal is its       *)
(* numerator over DECIMAL_FRACTIONAL.                                       *)
(***************************************************************************)
decimal_from_ratio(numerator, denominator) ==
    (numerator * DECIMAL_FRACTIONAL) \div denominator

(* Uint128 * Decimal, rounded down *)
uint128_mul_decimal(amount, decimal) ==
    multiply_ratio(amount, decimal, DECIMAL_FRACTIONAL)

State(multiplier, total_staked, residual) ==
    [ multiplier |-> multiplier,
      total_staked |-> total_staked,
      residual |-> residual ]

StakeState(staked_amount, unstaking_amount, unstaking_begin_time, unstaked_amount, multiplier, dividend) ==
    [ staked_amount |-> staked_amount,
      unstaking_amount |-> unstaking_amount,
      unstaking_begin_time |-> unstaking_begin_time,
      unstaked_amount |-> unstaked_amount,
      multiplier |-> multiplier,
      dividend |-> dividend ]

(* Mutant: the snapshot of the account is not subtracted. *)
dividend_from_zero(self, global_multiplier) ==
    self.dividend
        + multiply_ratio(self.staked_amount, global_multiplier,
                         DECIMAL_FRACTIONAL)

(* Return full dividend *)
dividend(self, global_multiplier) ==
    LET dividend_per_token_numer ==
            saturating_sub(global_multiplier, self.multiplier)
        new_dividend ==
            multiply_ratio(self.staked_amount, dividend_per_token_numer,
                           DECIMAL_FRACTIONAL)
    IN  self.dividend + new_dividend

(* Mutant: the dividend is folded but the snapshot stays where it was. *)
update_dividend_stale(self, global_multiplier) ==
    [self EXCEPT !.dividend = dividend(self, global_multiplier)]

(* Mutant: the accrued dividend is not folded before the snapshot moves. *)
update_dividend_unfolded(self, global_multiplier) ==
    [self EXCEPT !.multiplier = global_multiplier]

(* Mutant: the global multiplier is added to the one of the account. *)
update_dividend_adding(self, global_multiplier) ==
    [self EXCEPT !.dividend = dividend(self, global_multiplier),
                 !.multiplier = self.multiplier + global_multiplier]

(* Update dividend in state *)
update_dividend(self, global_multiplier) ==
    [self EXCEPT !.dividend = dividend(self, global_multiplier),
                 !.multiplier = global_multiplier]

(* Return full unstaked amount: the pair (unstaking, unstaked) *)
unstaking_unstaked_amount(self, timestamp, unstake_delay) ==
    LET matured ==
            /\ IsSome(self.unstaking_begin_time)
            /\ Unwrap(self.unstaking_begin_time) + unstake_delay < timestamp
        new_unstaking ==
            IF ~IsSome(self.unstaking_begin_time) THEN 0
            ELSE IF matured THEN 0
            ELSE self.unstaking_amount
        add_unstaked ==
            IF matured THEN self.unstaking_amount ELSE 0
    IN  << new_unstaking, self.unstaked_amount + add_unstaked >>

(* Mutant: the tokens are released only after the delay has passed. *)
update_unstaked_amount_after(self, timestamp, unstake_delay) ==
    IF IsSome(self.unstaking_begin_time)
          /\ Unwrap(self.unstaking_begin_time) + unstake_delay < timestamp
    THEN [self EXCEPT
             !.unstaked_amount = self.unstaked_amount + self.unstaking_amount,
             !.unstaking_amount = 0,
             !.unstaking_begin_time = None]
    ELSE self

(* Mutant: the tokens released replace the ones unstaked earlier. *)
update_unstaked_amount_overwriting(self, timestamp, unstake_delay) ==
    IF IsSome(self.unstaking_begin_time)
          /\ Unwrap(self.unstaking_begin_time) + unstake_delay <= timestamp
    THEN [self EXCEPT
             !.unstaked_amount = self.unstaking_amount,
             !.unstaking_amount = 0,
             !.unstaking_begin_time = None]
    ELSE self

(* Mutant: the tokens are released whatever time has passed. *)
update_unstaked_amount_at_once(self, timestamp, unstake_delay) ==
    IF IsSome(self.unstaking_begin_time)
    THEN [self EXCEPT
             !.unstaked_amount = self.unstaked_amount + self.unstaking_amount,
             !.unstaking_amount = 0,
             !.unstaking_begin_time = None]
    ELSE self

(* Update unstaked amount in state *)
update_unstaked_amount(self, timestamp, unstake_delay) ==
    IF IsSome(self.unstaking_begin_time)
          /\ Unwrap(self.unstaking_begin_time) + unstake_delay <= timestamp
    THEN [self EXCEPT
             !.unstaked_amount = self.unstaked_amount + self.unstaking_amount,
             !.unstaking_amount = 0,
             !.unstaking_begin_time = None]
    ELSE self

read_option_stake_state(storage, address) ==
    IF address \in DOMAIN storage THEN Some(storage[address]) ELSE None

store_stake_state(storage, address, stake_state) ==
    [ a \in (DOMAIN storage) \cup {address} |->
        IF a = address THEN stake_state ELSE storage[a] ]

(***************************************************************************)
(* The handlers of the root collector (ExecuteMsg of                        *)
(* packages/terranames/src/root_collector.rs): Deposit, Receive(Stake),     *)
(* UnstakeTokens, WithdrawTokens and WithdrawDividends.  A handler returns  *)
(* its error (or "Ok"), the State and the stake states it stores and the    *)
(* amount it sends out (before tax).                                        *)
(***************************************************************************)
TOKEN_CONTRACT == "token_contract"

CollectorOk(state, stakes, sent) ==
    [ err |-> "Ok", state |-> state, stake_states |-> stakes, sent |-> sent ]

CollectorFail(err, state, stakes) ==
    [ err |-> err, state |-> state, stake_states |-> stakes, sent |-> 0 ]

(* Mutant: the residual of the previous deposits is dropped. *)
deposit_state_without_residual(state, attached) ==
    IF state.total_staked = 0
    THEN [state EXCEPT !.residual = attached]
    ELSE LET delta == decimal_from_ratio(attached, state.total_staked)
         IN  State(state.multiplier + delta,
                   state.total_staked,
                   attached - uint128_mul_decimal(state.total_staked, delta))

deposit_state(state, attached) ==
    LET pool == attached + state.residual
    IN  IF state.total_staked = 0
        THEN [state EXCEPT !.residual = pool]
        ELSE LET delta == decimal_from_ratio(pool, state.total_staked)
             IN  State(state.multiplier + delta,
                       state.total_staked,
                       pool - uint128_mul_decimal(state.total_staked, delta))

execute_deposit(state, stakes, attached) ==
    CollectorOk(deposit_state(state, attached), stakes, 0)

(* Every handler of an account folds the unstaked tokens first. *)
execute_stake(state, stakes, cfg, current_time, staker, amount) ==
    LET loaded == read_option_stake_state(stakes, staker)
        folded == update_unstaked_amount(
                      update_dividend(Unwrap(loaded), state.multiplier),
                      current_time, cfg.unstake_delay)
        stake_state ==
            IF IsSome(loaded)
            THEN [folded EXCEPT !.staked_amount = folded.staked_amount + amount]
            ELSE StakeState(amount, 0, None, 0, state.multiplier, 0)
    IN  CollectorOk(
            [state EXCEPT !.total_staked = state.total_staked + amount],
            store_stake_state(stakes, staker, stake_state), 0)

execute_unstake_tokens(state, stakes, cfg, current_time, sender, amount) ==
    LET loaded == read_option_stake_state(stakes, sender)
        folded == update_unstaked_amount(
                      update_dividend(Unwrap(loaded), state.multiplier),
                      current_time, cfg.unstake_delay)
    IN  IF ~IsSome(loaded)
        THEN CollectorFail("InsufficientTokens", state, stakes)
        ELSE IF folded.staked_amount < amount
        THEN CollectorFail("InsufficientTokens", state, stakes)
        ELSE CollectorOk(
                [state EXCEPT !.total_staked = state.total_staked - amount],
                store_stake_state(stakes, sender,
                    [folded EXCEPT
                        !.staked_amount = folded.staked_amount - amount,
                        !.unstaking_amount = folded.unstaking_amount + amount,
                        !.unstaking_begin_time = Some(current_time)]),
                0)

execute_withdraw_tokens(state, stakes, cfg, current_time, sender, amount) ==
    LET loaded == read_option_stake_state(stakes, sender)
        folded == update_unstaked_amount(Unwrap(loaded), current_time,
                                         cfg.unstake_delay)
    IN  IF ~IsSome(loaded)
        THEN CollectorFail("InsufficientTokens", state, stakes)
        ELSE IF folded.unstaked_amount < amount
        THEN CollectorFail("InsufficientTokens", state, stakes)
        ELSE CollectorOk(
                state,
                store_stake_state(stakes, sender,
                    [folded EXCEPT
                        !.unstaked_amount = folded.unstaked_amount - amount]),
                amount)

execute_withdraw_dividends(state, stakes, cfg, current_time, sender) ==
    LET loaded == read_option_stake_state(stakes, sender)
        folded == update_unstaked_amount(
                      update_dividend(Unwrap(loaded), state.multiplier),
                      current_time, cfg.unstake_delay)
    IN  IF ~IsSome(loaded)
        THEN CollectorFail("InsufficientFunds", state, stakes)
        ELSE IF folded.dividend = 0
        THEN CollectorFail("InsufficientFunds", state, stakes)
        ELSE CollectorOk(
                state,
                store_stake_state(stakes, sender,
                                  [folded EXCEPT !.dividend = 0]),
                folded.dividend)

(***************************************************************************)
(* The state machine.                                                       *)
(***************************************************************************)
Controllers == {"bidder_3"}

(* The InstantiateMsg values tried: lease and delay lengths in ticks. *)
InstantiateMsgOf(min_lease, max_lease, counter_delay, transition_delay, bid_delay) ==
    [ collector_addr |-> COLLECTOR,
      min_lease_secs |-> min_lease * Tick,
      max_lease_secs |-> max_lease * Tick,
      counter_delay_secs |-> counter_delay * Tick,
      transition_delay_secs |-> transition_delay * Tick,
      bid_delay_secs |-> bid_delay * Tick ]

InstantiateMsgs ==
    { InstantiateMsgOf(1, 4, 2, 1, 1),
      InstantiateMsgOf(5, 4, 2, 1, 1) }

NoCall ==
    [ op |-> "None", name |-> "", sender |-> "", funds |-> 0, rate |-> 0,
      addr |-> "", value |-> None, err |-> "Ok", arg |-> 0,
      messages |-> << >>, response |-> None ]

Call(op, name, info, rate, addr, response) ==
    [ op |-> op, name |-> name, sender |-> info.sender,
      funds |-> info.funds, rate |-> rate, addr |-> addr, value |-> None,
      err |-> response.err, arg |-> response.arg,
      messages |-> response.messages, response |-> None ]

(* The ExecuteMsg variants *)
Writes == {"BidName", "FundName", "SetNameRate", "TransferNameOwner",
           "SetNameController"}

(* No chain of calls is being followed. *)
NoChain == [ stage |-> 0, name |-> "", owner |-> "", anchor |-> 0 ]

RECURSIVE SumOver(_, _)
SumOver(f, S) ==
    IF S = {} THEN 0
    ELSE LET a == CHOOSE x \in S : TRUE IN f[a] + SumOver(f, S \ {a})

Stakers == {"staker_1", "staker_2"}

NoCollectorCall ==
    [ op |-> "None", sender |-> "", staker |-> "", amount |-> 0,
      err |-> "Ok", sent |-> 0 ]

(* Nothing has been moved in or out yet. *)
NoLedger ==
    [ deposited |-> 0, dividends_withdrawn |-> 0,
      staked_in |-> [ a \in Stakers |-> 0 ],
      withdrawn_out |-> [ a \in Stakers |-> 0 ] ]


(* The host serialises the invocations: a handler runs when the previous
   response has been delivered. *)
Idle == last.op = "None"

(* The host commits the handler's writes only when it returns Ok. *)
Commit(op, name, info, rate, addr, response) ==
    /\ Idle
    /\ name_states' =
          IF IsSome(response.store)
          THEN store_name_state(name_states, name, Unwrap(response.store))
          ELSE name_states
    /\ before' = name_states
    /\ last' = Call(op, name, info, rate, addr, response)
    /\ UNCHANGED << config, now >>

Init ==
    /\ config = None
    /\ name_states = << >>
    /\ now = 0
    /\ last = NoCall
    /\ before = << >>
    /\ chain = NoChain
    /\ name_values = << >>
    /\ collector_config = None
    /\ collector_state = None
    /\ stake_states = << >>
    /\ collector_last = NoCollectorCall
    /\ collector_before = None
    /\ ledger = NoLedger
    /\ probe = None

InstantiateWith(msgs) ==
    /\ Idle
    /\ config = None
    /\ \E msg \in msgs :
          /\ config' = IF instantiate_invalid(msg)
                       THEN None
                       ELSE Some(instantiate_config(msg))
          /\ last' = [NoCall EXCEPT
                         !.op = "Instantiate",
                         !.err = IF instantiate_invalid(msg)
                                 THEN "InvalidConfig" ELSE "Ok"]
    /\ before' = name_states
    /\ UNCHANGED << name_states, now >>

Instantiate == InstantiateWith(InstantiateMsgs)

BidName ==
    /\ IsSome(config)
    /\ \E name \in Names, sender \in Addrs, rate \in Rates, funds \in Funds :
          LET info == MessageInfo(sender, funds)
          IN  Commit("BidName", name, info, rate, "",
                     execute_bid(name_states, Unwrap(config), now, info,
                                 name, rate))

FundName ==
    /\ IsSome(config)
    /\ \E name \in Names, sender \in Addrs, owner \in Addrs, funds \in Funds :
          LET info == MessageInfo(sender, funds)
          IN  Commit("FundName", name, info, 0, owner,
                     execute_fund(name_states, Unwrap(config), now, info,
                                  name, owner))

SetNameRate ==
    /\ IsSome(config)
    /\ \E name \in Names, sender \in Addrs, rate \in Rates, funds \in {0, 1} :
          LET info == MessageInfo(sender, funds)
          IN  Commit("SetNameRate", name, info, rate, "",
                     execute_set_rate(name_states, Unwrap(config), now, info,
                                      name, rate))

TransferNameOwner ==
    /\ IsSome(config)
    /\ \E name \in Names, sender \in Addrs, to \in Addrs, funds \in {0, 1} :
          LET info == MessageInfo(sender, funds)
          IN  Commit("TransferNameOwner", name, info, 0, to,
                     execute_transfer_owner(name_states, Unwrap(config), now,
                                            info, name, to))

SetNameController ==
    /\ IsSome(config)
    /\ \E name \in Names, sender \in Addrs, controller \in Controllers,
          funds \in {0, 1} :
          LET info == MessageInfo(sender, funds)
          IN  Commit("SetNameController", name, info, 0, controller,
                     execute_set_controller(name_states, Unwrap(config), now,
                                            info, name, controller))

(* The next block: block time is non-decreasing and the handlers read it
   in whole seconds. *)
AdvanceTime ==
    /\ Idle
    /\ now + Tick <= MaxTime
    /\ now' = now + Tick
    /\ last' = NoCall
    /\ before' = name_states
    /\ UNCHANGED << config, name_states >>

(* The host delivers the response and its messages; the next invocation
   may follow in the same block. *)
Deliver ==
    /\ ~Idle
    /\ last' = NoCall
    /\ before' = name_states
    /\ UNCHANGED << config, name_states, now >>

Next ==
    \/ Instantiate
    \/ BidName
    \/ FundName
    \/ SetNameRate
    \/ TransferNameOwner
    \/ SetNameController
    \/ Deliver
    \/ AdvanceTime

(* The contract alone: the history variable chain is not maintained and the
   resolver is not called. *)
Spec ==
    Init /\ [][Next /\ UNCHANGED << chain, name_values, collector_vars, probe >>]_vars

(***************************************************************************)
(* The same contract instantiated with min_lease_secs = 0, which            *)
(* instantiate accepts (it only requires min_lease_secs <= max_lease_secs): *)
(* the lower deposit bound is then 0 for every rate.                        *)
(***************************************************************************)
ZeroMinLeaseMsgs == { InstantiateMsgOf(0, 4, 2, 1, 1) }

InstantiateZeroMinLease == InstantiateWith(ZeroMinLeaseMsgs)

NextZeroMinLease ==
    \/ InstantiateZeroMinLease
    \/ BidName
    \/ FundName
    \/ SetNameRate
    \/ TransferNameOwner
    \/ SetNameController
    \/ Deliver
    \/ AdvanceTime

SpecZeroMinLease ==
    Init /\ [][NextZeroMinLease /\ UNCHANGED << chain, name_values, collector_vars, probe >>]_vars

(***************************************************************************)
(* The contract with the history of the scenario of tests.rs,               *)
(* set_rate_allows_bidding_continued_transition: chain is at stage 1 when   *)
(* an owner in TransitionDelay has set the rate (anchor is the              *)
(* transition_reference_time the call found), at stage 2 when another       *)
(* bidder has outbid that owner inside the counter window the call opened,  *)
(* at stage 3 when the owner has re-won inside the counter window that      *)
(* followed.  A failed call leaves the history alone, any other successful  *)
(* call clears it, and a completed chain is cleared when its response is    *)
(* delivered.                                                               *)
(***************************************************************************)
ChainAfter(op, name, sender) ==
    LET status == owner_status(name_states[name], Unwrap(config), now)
        in_counter == /\ chain.name = name
                      /\ status.kind = "CounterDelay"
    IN  IF op = "SetNameRate" /\ status.kind = "TransitionDelay"
        THEN [ stage |-> 1, name |-> name, owner |-> sender,
               anchor |-> name_states[name].transition_reference_time ]
        ELSE IF op = "BidName" /\ chain.stage = 1 /\ in_counter
                /\ sender # chain.owner
        THEN [chain EXCEPT !.stage = 2]
        ELSE IF op = "BidName" /\ chain.stage = 2 /\ in_counter
                /\ sender = chain.owner
        THEN [chain EXCEPT !.stage = 3]
        ELSE NoChain

ChainStep ==
    chain' = IF last'.op \in Writes /\ last'.err = "Ok"
             THEN ChainAfter(last'.op, last'.name, last'.sender)
             ELSE IF last'.op = "None" /\ last.op # "None" /\ chain.stage = 3
             THEN NoChain
             ELSE chain

NextChain == Next /\ ChainStep /\ UNCHANGED << name_values, collector_vars, probe >>

SpecChain == Init /\ [][NextChain]_vars

(***************************************************************************)
(* The auction together with a resolver instantiated with the auction's     *)
(* address.                                                                 *)
(***************************************************************************)
Values == { None, Some("test_value") }

SetNameValue ==
    /\ Idle
    /\ \E name \in Names, sender \in Addrs, value \in Values :
          LET info == MessageInfo(sender, 0)
              err == execute_set_value(
                         query_name_state(name_states, config, name),
                         now, info)
          IN  /\ name_values' = IF err = "Ok"
                                THEN store_name_value(name_values, name, value)
                                ELSE name_values
              /\ last' = [NoCall EXCEPT !.op = "SetNameValue",
                                        !.name = name,
                                        !.sender = sender,
                                        !.value = value,
                                        !.err = err]
    /\ before' = name_states
    /\ UNCHANGED << config, name_states, now >>

NextResolver ==
    \/ Next /\ UNCHANGED name_values
    \/ SetNameValue

SpecResolver ==
    Init /\ [][NextResolver /\ UNCHANGED << chain, collector_vars, probe >>]_vars

(***************************************************************************)
(* The contract with its query GetNameState, which reads the storage and    *)
(* the block time and writes nothing.                                       *)
(***************************************************************************)
GetNameState ==
    /\ Idle
    /\ \E name \in Names :
          LET result == get_name_state(name_states, config, now, name)
          IN  last' = [NoCall EXCEPT !.op = "GetNameState",
                                     !.name = name,
                                     !.err = result.err,
                                     !.response = result.response]
    /\ before' = name_states
    /\ UNCHANGED << config, name_states, now >>

NextQuery ==
    \/ Next
    \/ GetNameState

SpecQuery ==
    Init /\ [][NextQuery /\ UNCHANGED << chain, name_values, collector_vars, probe >>]_vars

(***************************************************************************)
(* The contract called with rates from the whole range of Uint128: the      *)
(* rate of BidName and SetNameRate is any value up to UintMax (the small     *)
(* rates and the largest one are tried).                                     *)
(***************************************************************************)
UintRates == Rates \cup { UintMax }

BidNameUint ==
    /\ IsSome(config)
    /\ \E name \in Names, sender \in Addrs, rate \in UintRates,
          funds \in Funds :
          LET info == MessageInfo(sender, funds)
          IN  Commit("BidName", name, info, rate, "",
                     IF execute_bid_overflows(name_states, Unwrap(config),
                                              now, info, name, rate)
                     THEN Abort
                     ELSE execute_bid(name_states, Unwrap(config), now, info,
                                      name, rate))

SetNameRateUint ==
    /\ IsSome(config)
    /\ \E name \in Names, sender \in Addrs, rate \in UintRates,
          funds \in {0, 1} :
          LET info == MessageInfo(sender, funds)
          IN  Commit("SetNameRate", name, info, rate, "",
                     IF execute_set_rate_overflows(name_states,
                                                   Unwrap(config), now, info,
                                                   name, rate)
                     THEN Abort
                     ELSE execute_set_rate(name_states, Unwrap(config), now,
                                           info, name, rate))

NextUint ==
    \/ Instantiate
    \/ BidNameUint
    \/ FundName
    \/ SetNameRateUint
    \/ TransferNameOwner
    \/ SetNameController
    \/ Deliver
    \/ AdvanceTime

SpecUint ==
    Init /\ [][NextUint /\ UNCHANGED << chain, name_values, collector_vars, probe >>]_vars

(***************************************************************************)
(* The root collector.  An invocation is recorded in collector_last, the    *)
(* State it found in collector_before; a failing invocation stores          *)
(* nothing.  ledger adds up what went in and out.         *)
(***************************************************************************)
(* All the tokens ever staked *)
StakedIn == SumOver(ledger.staked_in, Stakers)

CollectorCommit(op, sender, staker, amount, response) ==
    /\ collector_state' = Some(response.state)
    /\ stake_states' = response.stake_states
    /\ collector_before' = collector_state
    /\ collector_last' = [ op |-> op, sender |-> sender, staker |-> staker,
                           amount |-> amount, err |-> response.err,
                           sent |-> response.sent ]
    /\ UNCHANGED << collector_config, now >>

CollectorInstantiate ==
    /\ collector_config = None
    /\ collector_config' = Some([ unstake_delay |-> UnstakeDelayTicks * Tick ])
    /\ collector_state' = Some(State(0, 0, 0))
    /\ collector_before' = collector_state
    /\ collector_last' = [NoCollectorCall EXCEPT !.op = "Instantiate"]
    /\ UNCHANGED << stake_states, ledger, now >>

Deposit ==
    /\ IsSome(collector_config)
    /\ \E attached \in 1 .. MaxAttached :
          /\ ledger.deposited + attached <= MaxDeposited
          /\ CollectorCommit("Deposit", "auction", "", attached,
                             execute_deposit(Unwrap(collector_state),
                                             stake_states, attached))
          /\ ledger' = [ledger EXCEPT !.deposited = @ + attached]

Stake ==
    /\ IsSome(collector_config)
    /\ \E staker \in Stakers, amount \in 1 .. MaxStake :
          /\ StakedIn + amount <= MaxStakedIn
          /\ CollectorCommit("Stake", TOKEN_CONTRACT, staker, amount,
                             execute_stake(Unwrap(collector_state),
                                           stake_states,
                                           Unwrap(collector_config), now,
                                           staker, amount))
          /\ ledger' = [ledger EXCEPT !.staked_in[staker] = @ + amount]

UnstakeTokens ==
    /\ IsSome(collector_config)
    /\ \E sender \in Stakers, amount \in 1 .. MaxStake :
          /\ CollectorCommit("UnstakeTokens", sender, sender, amount,
                             execute_unstake_tokens(
                                 Unwrap(collector_state), stake_states,
                                 Unwrap(collector_config), now, sender,
                                 amount))
          /\ UNCHANGED ledger

WithdrawTokens ==
    /\ IsSome(collector_config)
    /\ \E sender \in Stakers, amount \in 1 .. MaxStake :
          LET response == execute_withdraw_tokens(
                              Unwrap(collector_state), stake_states,
                              Unwrap(collector_config), now, sender, amount)
          IN  /\ CollectorCommit("WithdrawTokens", sender, sender, amount,
                                 response)
              /\ ledger' = [ledger EXCEPT
                                !.withdrawn_out[sender] = @ + response.sent]

WithdrawDividends ==
    /\ IsSome(collector_config)
    /\ \E sender \in Stakers :
          LET response == execute_withdraw_dividends(
                              Unwrap(collector_state), stake_states,
                              Unwrap(collector_config), now, sender)
          IN  /\ CollectorCommit("WithdrawDividends", sender, sender, 0,
                                 response)
              /\ ledger' = [ledger EXCEPT
                                !.dividends_withdrawn = @ + response.sent]

(* The next block of the root collector's chain. *)
CollectorAdvanceTime ==
    /\ now + Tick <= MaxCollectorTicks * Tick
    /\ now' = now + Tick
    /\ UNCHANGED << collector_config, collector_state, stake_states, ledger,
                    collector_last, collector_before >>

NextCollector ==
    \/ CollectorInstantiate
    \/ Deposit
    \/ Stake
    \/ UnstakeTokens
    \/ WithdrawTokens
    \/ WithdrawDividends
    \/ CollectorAdvanceTime

SpecCollector ==
    Init /\ [][NextCollector /\ UNCHANGED << config, name_states, last, before, chain, name_values, probe >>]_vars

(***************************************************************************)
(* The staking calls of the root collector alone, under every               *)
(* unstake_delay up to MaxUnstakeDelayTicks ticks and for MaxTicks blocks;  *)
(* probe holds, by account and block time, the tokens of the successful     *)
(* UnstakeTokens calls made so far.                                         *)
(***************************************************************************)
InstantiateWithDelay ==
    /\ collector_config = None
    /\ \E ticks \in 0 .. MaxUnstakeDelayTicks :
          collector_config' = Some([ unstake_delay |-> ticks * Tick ])
    /\ collector_state' = Some(State(0, 0, 0))
    /\ collector_before' = collector_state
    /\ collector_last' = [NoCollectorCall EXCEPT !.op = "Instantiate"]
    /\ UNCHANGED << stake_states, ledger, now >>

UnstakingAdvanceTime ==
    /\ now + Tick < MaxTicks * Tick
    /\ now' = now + Tick
    /\ UNCHANGED << collector_config, collector_state, stake_states, ledger,
                    collector_last, collector_before >>

UnstakeCalls ==
    IF /\ now' = now
       /\ collector_last'.op = "UnstakeTokens"
       /\ collector_last'.err = "Ok"
    THEN LET call == << collector_last'.sender, now >>
         IN  [ c \in (DOMAIN probe) \cup {call} |->
                 (IF c \in DOMAIN probe THEN probe[c] ELSE 0)
                    + (IF c = call THEN collector_last'.amount ELSE 0) ]
    ELSE probe

NextUnstaking ==
    \/ InstantiateWithDelay
    \/ Stake
    \/ UnstakeTokens
    \/ WithdrawTokens
    \/ UnstakingAdvanceTime

SpecUnstaking ==
    Init /\ [][NextUnstaking /\ probe' = UnstakeCalls /\ UNCHANGED << config, name_states, last, before, chain, name_values >>]_vars

(***************************************************************************)
(* The contract under block times that are not even monotone: the handlers  *)
(* take env.block.time as it is given to them.                              *)
(***************************************************************************)
RewindTime ==
    /\ Idle
    /\ now >= Tick
    /\ now' = now - Tick
    /\ last' = NoCall
    /\ before' = name_states
    /\ UNCHANGED << config, name_states >>

NextAnyTime == Next \/ RewindTime

SpecAnyTime ==
    Init /\ [][NextAnyTime /\ UNCHANGED << chain, name_values, collector_vars, probe >>]_vars

(***************************************************************************)
(* GetAllNameStates over a bucket of many names.  The contract holds a set  *)
(* of names; a client pages through them, each query starting after the     *)
(* last name of the page before.  probe keeps the first start_after, the    *)
(* limit, the start_after and the page of the last query, and the names     *)
(* seen so far.                                                             *)
(***************************************************************************)
RECURSIVE BytesUpTo(_)
BytesUpTo(n) ==
    IF n = 0 THEN {}
    ELSE LET shorter == BytesUpTo(n - 1)
         IN  shorter \cup { << b >> : b \in NameBytes }
                     \cup { Append(k, b) : k \in shorter, b \in NameBytes }

AllNames == BytesUpTo(MaxNameLen)

(* The buckets tried: the names of up to some length that begin with one
   of some bytes. *)
StoredNames ==
    { { k \in AllNames : Len(k) <= n /\ k[1] \in first } :
        n \in 1 .. MaxNameLen, first \in SUBSET NameBytes }

Limits ==
    { None, Some(0), Some(2), Some(DEFAULT_LIMIT + 1),
      Some(MAX_LIMIT), Some(MAX_LIMIT + 1) }

StartAfters == { None } \cup { Some(k) : k \in BytesUpTo(MaxStartAfterLen) }

PagingConfig ==
    instantiate_config(CHOOSE msg \in InstantiateMsgs :
                           ~instantiate_invalid(msg))

InitPaging ==
    /\ config = Some(PagingConfig)
    /\ \E stored \in StoredNames :
          name_states =
              [ k \in stored |->
                  bid_new_state(MessageInfo("bidder_1", 1), Len(k), 0, 0) ]
    /\ now = 0
    /\ last = NoCall
    /\ before = << >>
    /\ chain = NoChain
    /\ name_values = << >>
    /\ collector_config = None
    /\ collector_state = None
    /\ stake_states = << >>
    /\ collector_last = NoCollectorCall
    /\ collector_before = None
    /\ ledger = NoLedger
    /\ \E start_after \in StartAfters, limit \in Limits :
          probe = [ first_start_after |-> start_after,
                    limit |-> limit,
                    start_after |-> start_after,
                    queried |-> FALSE,
                    err |-> "Ok",
                    names |-> << >>,
                    seen |-> << >> ]

(* The next page: start_after is the last name returned so far. *)
GetAllNameStates ==
    /\ ~probe.queried \/ probe.names # << >>
    /\ LET start_after == IF probe.queried
                          THEN Some(probe.names[Len(probe.names)])
                          ELSE probe.first_start_after
           response == query_all_name_states(name_states, config,
                                             start_after, probe.limit)
       IN  probe' = [probe EXCEPT
                        !.start_after = start_after,
                        !.queried = TRUE,
                        !.err = response.err,
                        !.names = response.names,
                        !.seen = probe.seen \o response.names]
    /\ UNCHANGED << config, name_states, now, last, before >>

NextPaging == GetAllNameStates

SpecPaging ==
    InitPaging /\ [][NextPaging /\ UNCHANGED << chain, name_values, collector_vars >>]_vars

(***************************************************************************)
(* Vocabulary of the properties.  They are stated on the last invocation    *)
(* (last), the record it found (Pre) and the record it left (Post), with    *)
(* the arithmetic written out rather than taken from the handlers.          *)
(***************************************************************************)
Cfg == Unwrap(config)

CeilDiv(a, b) == (a + b - 1) \div b
FloorDiv(a, b) == a \div b
Max(a, b) == IF a >= b THEN a ELSE b

Called(op) == last.op = op
Succeeded(op) == last.op = op /\ last.err = "Ok"
Outcome == << last.err, last.arg >>

HadRecord == last.name \in DOMAIN before
Pre == before[last.name]
Post == name_states[last.name]
PreStatus == owner_status(Pre, Cfg, now)
PostStatus == owner_status(Post, Cfg, now)
PreAge == now - Pre.begin_time

(* The invocation was a bid that found a record that is not Expired. *)
BidOnLiveName ==
    Called("BidName") /\ HadRecord /\ PreStatus.kind # "Expired"

(* The invocation was a bid on a never-seen or an Expired name. *)
BidOnFreeName ==
    Called("BidName") /\ (HadRecord => PreStatus.kind = "Expired")

(* max(0, begin_deposit - ceil((now - begin_time) * rate / RATE_PERIOD)) *)
RefundOwed ==
    Max(0, Pre.begin_deposit - CeilDiv(PreAge * Pre.rate, RATE_SEC_DENOM))

MinDeposit(rate) == CeilDiv(Cfg.min_lease_secs * rate, RATE_SEC_DENOM)
MaxDeposit(rate) == FloorDiv(Cfg.max_lease_secs * rate, RATE_SEC_DENOM)

InClosedWindow ==
    /\ Pre.rate # 0
    /\ Cfg.counter_delay_secs <= PreAge
    /\ PreAge < Cfg.counter_delay_secs + Cfg.bid_delay_secs

RECURSIVE SumAmounts(_)
SumAmounts(messages) ==
    IF messages = << >>
    THEN 0
    ELSE Head(messages).amount + SumAmounts(Tail(messages))


(***************************************************************************)
(* C1: a BidName on an existing name that is not Expired fails with         *)
(* Unauthorized, ClosedForBids, BidRateTooLow(current rate),                *)
(* BidDepositTooLow(refund) or BidInvalidInterval, the first failing check  *)
(* in that order deciding, and succeeds exactly when none of them fails.    *)
(***************************************************************************)
C1_ExpectedOutcome ==
    IF last.sender = Pre.owner
    THEN << "Unauthorized", 0 >>
    ELSE IF InClosedWindow
    THEN << "ClosedForBids", 0 >>
    ELSE IF ~(last.rate > Pre.rate)
    THEN << "BidRateTooLow", Pre.rate >>
    ELSE IF ~(last.funds > RefundOwed)
    THEN << "BidDepositTooLow", RefundOwed >>
    ELSE IF ~(MinDeposit(last.rate) <= last.funds
              /\ last.funds <= MaxDeposit(last.rate))
    THEN << "BidInvalidInterval", 0 >>
    ELSE << "Ok", 0 >>

C1_BidExistingOutcome == BidOnLiveName => Outcome = C1_ExpectedOutcome

(* A counter-bid that passed all five checks and outbid a holder who is
   owed a refund. *)
C1_Witness ==
    /\ BidOnLiveName
    /\ last.err = "Ok"
    /\ RefundOwed > 0
    /\ last.rate = Pre.rate + 1

(***************************************************************************)
(* C2: the auction never keeps or creates money: for every successful       *)
(* operation the amounts of the emitted bank messages sum to the attached   *)
(* stable funds; a bid on a live name refunds RefundOwed to the outbid      *)
(* holder (no message when zero) and forwards the rest to the collector; a  *)
(* bid on a free name and a FundName forward everything to the collector;   *)
(* SetNameRate, TransferNameOwner and SetNameController emit nothing.       *)
(***************************************************************************)
C2_ExpectedMessages ==
    IF BidOnLiveName
    THEN (IF RefundOwed # 0
          THEN << BankSend(Pre.owner, RefundOwed) >>
          ELSE << >>)
         \o << BankSend(COLLECTOR, last.funds - RefundOwed) >>
    ELSE IF Called("BidName")
    THEN (IF last.funds # 0
          THEN << BankSend(COLLECTOR, last.funds) >>
          ELSE << >>)
    ELSE IF Called("FundName")
    THEN << BankSend(COLLECTOR, last.funds) >>
    ELSE << >>

C2_NoMoneyKept ==
    (last.op \in Writes /\ last.err = "Ok") =>
        /\ SumAmounts(last.messages) = last.funds
        /\ last.messages = C2_ExpectedMessages

(* The part of C2 that the handlers do keep: the messages are the ones
   described, and bids and fundings pass on exactly what was attached. *)
C2_BidAndFundForwardAll ==
    (last.op \in Writes /\ last.err = "Ok") =>
        /\ last.messages = C2_ExpectedMessages
        /\ last.op \in {"BidName", "FundName"} =>
              SumAmounts(last.messages) = last.funds

(***************************************************************************)
(* C3: after a successful BidName on a live name,                            *)
(* transition_reference_time is the bid time when the bidder differs from   *)
(* the authoritative owner of the phase (owner in Valid/TransitionDelay,    *)
(* name_owner in CounterDelay), and otherwise the transition reference the  *)
(* phase reported (previous_transition_reference_time in CounterDelay).     *)
(***************************************************************************)
AuthoritativeOwner(record, status) ==
    IF status.kind = "CounterDelay"
    THEN record.previous_owner
    ELSE Some(record.owner)

PhaseTransitionReference(record, status) ==
    IF status.kind = "CounterDelay"
    THEN record.previous_transition_reference_time
    ELSE record.transition_reference_time

C3_TransitionReferenceAfterBid ==
    (BidOnLiveName /\ last.err = "Ok") =>
        Post.transition_reference_time =
            IF Some(last.sender) # AuthoritativeOwner(Pre, PreStatus)
            THEN now
            ELSE PhaseTransitionReference(Pre, PreStatus)

(* The authoritative owner re-won inside the counter window and kept an
   older transition reference. *)
C3_Witness ==
    /\ BidOnLiveName
    /\ last.err = "Ok"
    /\ PreStatus.kind = "CounterDelay"
    /\ Pre.previous_owner = Some(last.sender)
    /\ Post.transition_reference_time # 0
    /\ Post.transition_reference_time < now

(***************************************************************************)
(* C4: while a name stays in CounterDelay and no TransferNameOwner          *)
(* succeeds, previous_owner and previous_transition_reference_time do not   *)
(* change, however many counter-bids arrive: a bidder outbid inside the     *)
(* window never becomes previous_owner.                                     *)
(***************************************************************************)
InCounterDelay(storage, name, time) ==
    /\ name \in DOMAIN storage
    /\ owner_status(storage[name], Cfg, time).kind = "CounterDelay"

C4_Step ==
    \A name \in Names :
        ( /\ IsSome(config)
          /\ InCounterDelay(name_states, name, now)
          /\ InCounterDelay(name_states', name, now')
          /\ ~(last'.op = "TransferNameOwner" /\ last'.err = "Ok") )
        => /\ name_states'[name].previous_owner
                = name_states[name].previous_owner
           /\ name_states'[name].previous_transition_reference_time
                = name_states[name].previous_transition_reference_time

C4_CounterChainKeepsPreviousOwner == [][C4_Step]_vars

(* A third party outbid the bidder who had outbid the name owner, inside
   the same counter window. *)
C4_Witness ==
    /\ BidOnLiveName
    /\ last.err = "Ok"
    /\ PreStatus.kind = "CounterDelay"
    /\ IsSome(Pre.previous_owner)
    /\ Pre.owner # Unwrap(Pre.previous_owner)
    /\ last.sender # Unwrap(Pre.previous_owner)
    /\ Post.previous_owner = Pre.previous_owner
    /\ Post.owner = last.sender

(***************************************************************************)
(* C5: a BidName by a non-holder on a live name is rejected with            *)
(* ClosedForBids exactly when the rate is non-zero and                      *)
(* counter_delay <= now - begin_time < counter_delay + bid_delay.           *)
(***************************************************************************)
C5_ClosedForBidsWindow ==
    (BidOnLiveName /\ last.sender # Pre.owner) =>
        ( last.err = "ClosedForBids"
            <=> ( /\ Pre.rate # 0
                  /\ Cfg.counter_delay_secs <= now - Pre.begin_time
                  /\ now - Pre.begin_time
                        < Cfg.counter_delay_secs + Cfg.bid_delay_secs ) )

(* A bid at exactly begin_time + counter_delay + bid_delay on a name with
   a non-zero rate went through. *)
C5_Witness ==
    /\ BidOnLiveName
    /\ last.err = "Ok"
    /\ Pre.rate # 0
    /\ now = Pre.begin_time + Cfg.counter_delay_secs + Cfg.bid_delay_secs

(***************************************************************************)
(* C6: Expired is terminal until a fresh bid: no FundName, SetNameRate,     *)
(* TransferNameOwner or SetNameController takes a name out of Expired (and  *)
(* the passing of time does not either).                                    *)
(***************************************************************************)
C6_ExpiredUntilFreshBid ==
    ( /\ last.op \in Writes \ {"BidName"}
      /\ last.err = "Ok"
      /\ HadRecord
      /\ PreStatus.kind = "Expired" )
    => PostStatus.kind = "Expired"

(* The part of C6 that holds: an Expired record that nothing writes stays
   Expired as the block time advances. *)
C6_ExpiredStaysWithoutWrite ==
    \A name \in DOMAIN name_states :
        owner_status(name_states[name], Cfg, now).kind = "Expired" =>
            \A k \in 0 .. MaxTicks + 1 :
                owner_status(name_states[name], Cfg, now + k * Tick).kind
                    = "Expired"

(***************************************************************************)
(* C7: a successful BidName on a never-seen or Expired name stores a fresh  *)
(* record: owner = sender, controller = None, previous_owner = None,        *)
(* begin_time = now, begin_deposit = attached, transition_reference_time =  *)
(* the expire_time of the expired record (0 for a never-seen name); the     *)
(* expired record does not constrain the bidder or the rate.                *)
(***************************************************************************)
PreExpireTime ==
    Pre.begin_time + FloorDiv(Pre.begin_deposit * RATE_SEC_DENOM, Pre.rate)

C7_FreshRecord ==
    (BidOnFreeName /\ last.err = "Ok") =>
        /\ Post.owner = last.sender
        /\ Post.controller = None
        /\ Post.previous_owner = None
        /\ Post.begin_time = now
        /\ Post.begin_deposit = last.funds
        /\ Post.rate = last.rate
        /\ Post.transition_reference_time =
              IF HadRecord THEN PreExpireTime ELSE 0

(* The holder of the expired record bid again, at a lower rate, on a
   record that had a controller. *)
C7_Witness ==
    /\ BidOnFreeName
    /\ last.err = "Ok"
    /\ HadRecord
    /\ last.sender = Pre.owner
    /\ last.rate < Pre.rate
    /\ IsSome(Pre.controller)
    /\ Post.transition_reference_time > 0

(***************************************************************************)
(* C8: a BidName on a never-seen or Expired name succeeds if and only if    *)
(* ceil(min_lease*rate/RATE_PERIOD) <= attached                             *)
(* <= floor(max_lease*rate/RATE_PERIOD) and fails with BidInvalidInterval   *)
(* otherwise; with rate 0 only zero attached funds are accepted.            *)
(***************************************************************************)
C8_NewBidInterval ==
    BidOnFreeName =>
        /\ last.err = "Ok"
              <=> ( /\ MinDeposit(last.rate) <= last.funds
                    /\ last.funds <= MaxDeposit(last.rate) )
        /\ last.err \in {"Ok", "BidInvalidInterval"}
        /\ (last.rate = 0 /\ last.err = "Ok") => last.funds = 0

(* A deposit exactly at the lower bound, which is below the upper bound,
   was accepted. *)
C8_Witness ==
    /\ BidOnFreeName
    /\ last.err = "Ok"
    /\ last.funds = MinDeposit(last.rate)
    /\ last.funds < MaxDeposit(last.rate)

(***************************************************************************)
(* C9: while a record's rate is 0 it never enters Expired: at its begin     *)
(* time and at every later time the phase classifier returns a phase other  *)
(* than Expired, and expire_time is None.                                   *)
(***************************************************************************)
LaterTimes(record) ==
    { record.begin_time + k * Tick + d :
        k \in 0 .. MaxTicks + 2, d \in {0, 1} }

C9_ZeroRateNeverExpires ==
    \A name \in DOMAIN name_states :
        name_states[name].rate = 0 =>
            /\ expire_time(name_states[name]) = None
            /\ \A t \in LaterTimes(name_states[name]) :
                  owner_status(name_states[name], Cfg, t).kind # "Expired"

(* A record with rate 0 that is older than max_lease and Valid. *)
C9_Witness ==
    \E name \in DOMAIN name_states :
        /\ name_states[name].rate = 0
        /\ now - name_states[name].begin_time >= Cfg.max_lease_secs
        /\ owner_status(name_states[name], Cfg, now).kind = "Valid"

(***************************************************************************)
(* C10: SetNameRate is authorised only for the owner while the name is      *)
(* Valid or in TransitionDelay; it fails with Unauthorized for every        *)
(* sender in CounterDelay and in Expired and for every other sender; the    *)
(* owner's call is authorised from now = begin_time + counter_delay on.     *)
(***************************************************************************)
PreExpired ==
    /\ Pre.rate # 0
    /\ PreAge >= FloorDiv(Pre.begin_deposit * RATE_SEC_DENOM, Pre.rate)

C10_SetRateAuthorised ==
    (Called("SetNameRate") /\ HadRecord) =>
        /\ last.err # "Unauthorized"
              <=> ( /\ last.sender = Pre.owner
                    /\ PreStatus.kind \in {"Valid", "TransitionDelay"} )
        /\ last.err # "Unauthorized"
              <=> ( /\ last.sender = Pre.owner
                    /\ ~PreExpired
                    /\ PreAge >= Cfg.counter_delay_secs )

(* The owner changed the rate at exactly begin_time + counter_delay. *)
C10_Witness ==
    /\ Succeeded("SetNameRate")
    /\ last.sender = Pre.owner
    /\ now = Pre.begin_time + Cfg.counter_delay_secs
    /\ last.rate # Pre.rate

(***************************************************************************)
(* C11: a SetNameRate issued with now - begin_time < counter_delay fails    *)
(* with Unauthorized for a different bidder and succeeds for the owner      *)
(* (BidInvalidInterval when the remaining deposit is below                  *)
(* ceil(min_lease*new_rate/RATE_PERIOD)).                                   *)
(***************************************************************************)
Remaining ==
    Max(0, Pre.begin_deposit - CeilDiv(PreAge * Pre.rate, RATE_SEC_DENOM))

SetRateInCounterWindow ==
    /\ Called("SetNameRate")
    /\ HadRecord
    /\ PreAge < Cfg.counter_delay_secs

C11_OwnerSetsRateInCounterWindow ==
    SetRateInCounterWindow =>
        last.err = IF last.sender # Pre.owner
                   THEN "Unauthorized"
                   ELSE IF Remaining < MinDeposit(last.rate)
                   THEN "BidInvalidInterval"
                   ELSE "Ok"

(* C11 as the handler behaves: inside the counter window SetNameRate fails
   with Unauthorized for every sender, the owner (the bid holder) and the
   name owner included. *)
C11_NobodySetsRateInCounterWindow ==
    SetRateInCounterWindow => last.err = "Unauthorized"

(* The bid holder asked, inside the counter window, for a rate that the
   remaining deposit covers, and was refused. *)
C11_Witness ==
    /\ SetRateInCounterWindow
    /\ PreStatus.kind = "CounterDelay"
    /\ last.sender = Pre.owner
    /\ last.rate # Pre.rate
    /\ MinDeposit(last.rate) <= Remaining
    /\ Remaining <= MaxDeposit(last.rate)
    /\ last.err = "Unauthorized"

(***************************************************************************)
(* C12: a successful SetNameRate sets rate to the new rate, begin_time to   *)
(* now, begin_deposit to the remaining deposit, previous_owner to           *)
(* Some(owner) and previous_transition_reference_time to                    *)
(* transition_reference_time; owner, controller and                         *)
(* transition_reference_time are unchanged and no message is emitted, so    *)
(* that (with counter_delay > 0) the name is immediately in CounterDelay    *)
(* with name_owner = bid_owner = owner.                                     *)
(***************************************************************************)
C12_SetRateFields ==
    /\ Post.rate = last.rate
    /\ Post.begin_time = now
    /\ Post.begin_deposit = Remaining
    /\ Post.previous_owner = Some(Pre.owner)
    /\ Post.previous_transition_reference_time = Pre.transition_reference_time
    /\ Post.owner = Pre.owner
    /\ Post.controller = Pre.controller
    /\ Post.transition_reference_time = Pre.transition_reference_time
    /\ last.messages = << >>

C12_InCounterDelayOfOwner ==
    /\ PostStatus.kind = "CounterDelay"
    /\ PostStatus.name_owner = Some(Pre.owner)
    /\ PostStatus.bid_owner = Pre.owner

C12_SetRateOpensCounterDelay ==
    Succeeded("SetNameRate") =>
        /\ C12_SetRateFields
        /\ Cfg.counter_delay_secs > 0 => C12_InCounterDelayOfOwner

(* The new deposit buys less than one second at the new rate. *)
C12_BuysNoTime ==
    /\ last.rate > 0
    /\ FloorDiv(Remaining * RATE_SEC_DENOM, last.rate) = 0

(* C12 as the handler behaves: the fields are as stated, and the name is in
   CounterDelay unless the remaining deposit buys no time at the new rate
   (possible only when min_lease is 0), in which case it is Expired at
   once. *)
C12_SetRateOpensCounterDelayOrExpires ==
    Succeeded("SetNameRate") =>
        /\ C12_SetRateFields
        /\ (Cfg.counter_delay_secs > 0 /\ ~C12_BuysNoTime)
              => C12_InCounterDelayOfOwner
        /\ C12_BuysNoTime => PostStatus.kind = "Expired"
        /\ C12_BuysNoTime => Cfg.min_lease_secs = 0

(* An owner with a controller and a started transition lowered the rate
   and kept a deposit: the name is back in CounterDelay. *)
C12_Witness ==
    /\ Succeeded("SetNameRate")
    /\ last.rate < Pre.rate
    /\ Remaining > 0
    /\ Remaining < Pre.begin_deposit
    /\ IsSome(Pre.controller)
    /\ PostStatus.kind = "CounterDelay"

(***************************************************************************)
(* C13: a SetNameRate by the authorised owner succeeds if and only if       *)
(* ceil(min_lease*new_rate/RATE_PERIOD) <= remaining                        *)
(* <= floor(max_lease*new_rate/RATE_PERIOD) and fails with                  *)
(* BidInvalidInterval otherwise; the new rate may be lower or higher than   *)
(* the old one.                                                             *)
(***************************************************************************)
SetRateByAuthorisedOwner ==
    /\ Called("SetNameRate")
    /\ HadRecord
    /\ last.sender = Pre.owner
    /\ PreStatus.kind \in {"Valid", "TransitionDelay"}

C13_SetRateInterval ==
    SetRateByAuthorisedOwner =>
        /\ last.err = "Ok"
              <=> ( /\ MinDeposit(last.rate) <= Remaining
                    /\ Remaining <= MaxDeposit(last.rate) )
        /\ last.err \in {"Ok", "BidInvalidInterval"}

(* The owner raised the rate with a remaining deposit exactly at the lower
   bound for the new rate. *)
C13_Witness ==
    /\ SetRateByAuthorisedOwner
    /\ last.err = "Ok"
    /\ last.rate > Pre.rate
    /\ Pre.rate > 0
    /\ Remaining = MinDeposit(last.rate)

(***************************************************************************)
(* C14: SetNameRate preserves the transition anchor across the counter      *)
(* window it opens: when an owner in TransitionDelay has called             *)
(* SetNameRate, has been outbid inside the new counter window and has       *)
(* re-won inside the following counter window, transition_reference_time    *)
(* equals its value before the SetNameRate.                                 *)
(***************************************************************************)
C14_AnchorKeptAcrossSetRate ==
    chain.stage = 3 =>
        /\ name_states[chain.name].owner = chain.owner
        /\ name_states[chain.name].transition_reference_time = chain.anchor

(* A chain completed by an owner whose transition had started at an
   earlier, non-zero time: the transition is still counted from there. *)
C14_Witness ==
    /\ chain.stage = 3
    /\ chain.anchor > 0
    /\ chain.anchor < now
    /\ last.op = "BidName"
    /\ last.sender = chain.owner

(***************************************************************************)
(* C15: FundName succeeds if and only if the record exists, the attached    *)
(* funds are non-zero, the record's owner equals the expected-owner         *)
(* argument and begin_deposit + attached                                    *)
(* <= floor((max_lease + now - begin_time)*rate/RATE_PERIOD); it fails      *)
(* with Unfunded, UnexpectedState or BidInvalidInterval respectively; any   *)
(* sender may fund, and on success only begin_deposit changes, by exactly   *)
(* the attached amount.                                                     *)
(***************************************************************************)
MaxAllowed ==
    FloorDiv((Cfg.max_lease_secs + PreAge) * Pre.rate, RATE_SEC_DENOM)

C15_ExpectedOutcome ==
    IF ~HadRecord
    THEN "Std"
    ELSE IF last.funds = 0
    THEN "Unfunded"
    ELSE IF Pre.owner # last.addr
    THEN "UnexpectedState"
    ELSE IF Pre.begin_deposit + last.funds > MaxAllowed
    THEN "BidInvalidInterval"
    ELSE "Ok"

C15_FundOutcome ==
    Called("FundName") =>
        /\ last.err = C15_ExpectedOutcome
        /\ last.err = "Ok" =>
              Post = [Pre EXCEPT !.begin_deposit = @ + last.funds]

(* Somebody other than the owner funded a running lease up to exactly the
   allowed maximum. *)
C15_Witness ==
    /\ Succeeded("FundName")
    /\ last.sender # Pre.owner
    /\ PreAge > 0
    /\ PreStatus.kind # "Expired"
    /\ Pre.begin_deposit + last.funds = MaxAllowed

(***************************************************************************)
(* C16: funding never pushes the remaining lease beyond max_lease measured  *)
(* from now: immediately after a successful FundName at time now on a       *)
(* record with rate > 0, expire_time - now <= max_lease.                    *)
(***************************************************************************)
PostExpireTime ==
    Post.begin_time + FloorDiv(Post.begin_deposit * RATE_SEC_DENOM, Post.rate)

C16_FundWithinMaxLease ==
    (Succeeded("FundName") /\ Post.rate > 0) =>
        PostExpireTime - now <= Cfg.max_lease_secs

(* A running lease was funded, some time after it began, to the point
   where it expires exactly max_lease from now. *)
C16_Witness ==
    /\ Succeeded("FundName")
    /\ Post.rate > 0
    /\ PreAge > 0
    /\ PreStatus.kind # "Expired"
    /\ PostExpireTime - now = Cfg.max_lease_secs

(***************************************************************************)
(* C17: at the instant a record is created or mutated by a bid, a fund or   *)
(* a set-rate, its begin_deposit is at least                                *)
(* floor(min_lease*rate/RATE_PERIOD) and at most                            *)
(* floor(max_lease*rate/RATE_PERIOD).                                       *)
(***************************************************************************)
DepositWrites == {"BidName", "FundName", "SetNameRate"}

C17_DepositWithinLeaseBounds ==
    (last.op \in DepositWrites /\ last.err = "Ok") =>
        /\ FloorDiv(Cfg.min_lease_secs * Post.rate, RATE_SEC_DENOM)
              <= Post.begin_deposit
        /\ Post.begin_deposit <= MaxDeposit(Post.rate)

(* C17 as the handlers behave: a bid and a set-rate leave begin_deposit
   between the rounded-up lower and the rounded-down upper bound; a fund
   keeps the lower bound but its upper bound is
   floor((max_lease + now - begin_time)*rate/RATE_PERIOD). *)
C17_DepositWithinBoundsOfItsWrite ==
    (last.op \in DepositWrites /\ last.err = "Ok") =>
        /\ MinDeposit(Post.rate) <= Post.begin_deposit
        /\ FloorDiv(Cfg.min_lease_secs * Post.rate, RATE_SEC_DENOM)
              <= Post.begin_deposit
        /\ last.op # "FundName" => Post.begin_deposit <= MaxDeposit(Post.rate)
        /\ last.op = "FundName" => Post.begin_deposit <= MaxAllowed

(* A running lease was funded beyond floor(max_lease*rate/RATE_PERIOD). *)
C17_Witness ==
    /\ Succeeded("FundName")
    /\ PreStatus.kind # "Expired"
    /\ Post.begin_deposit > MaxDeposit(Post.rate)
    /\ Post.begin_deposit <= MaxAllowed

(***************************************************************************)
(* C18: TransferNameOwner changes exactly one ownership field and nothing   *)
(* else: in Valid/TransitionDelay the owner's transfer replaces owner; in   *)
(* CounterDelay a transfer by the name owner replaces only previous_owner,  *)
(* a transfer by a sender who is only the bid holder replaces only owner;   *)
(* every other sender, and every sender on an Expired name, gets            *)
(* Unauthorized; no message is emitted.                                     *)
(***************************************************************************)
C18_ExpectedRecord ==
    IF PreStatus.kind \in {"Valid", "TransitionDelay"}
          /\ last.sender = Pre.owner
    THEN Some([Pre EXCEPT !.owner = last.addr])
    ELSE IF PreStatus.kind = "CounterDelay"
          /\ Pre.previous_owner = Some(last.sender)
    THEN Some([Pre EXCEPT !.previous_owner = Some(last.addr)])
    ELSE IF PreStatus.kind = "CounterDelay" /\ last.sender = Pre.owner
    THEN Some([Pre EXCEPT !.owner = last.addr])
    ELSE None

C18_TransferChangesOneField ==
    (Called("TransferNameOwner") /\ HadRecord) =>
        /\ last.messages = << >>
        /\ IF IsSome(C18_ExpectedRecord)
           THEN last.err = "Ok" /\ Post = Unwrap(C18_ExpectedRecord)
           ELSE last.err = "Unauthorized" /\ name_states = before

(* Inside a counter window the name owner, who is not the bid holder,
   handed the name to somebody else. *)
C18_Witness ==
    /\ Succeeded("TransferNameOwner")
    /\ PreStatus.kind = "CounterDelay"
    /\ Pre.previous_owner = Some(last.sender)
    /\ Pre.owner # last.sender
    /\ last.addr # last.sender
    /\ Post.previous_owner = Some(last.addr)
    /\ Post.owner = Pre.owner

(***************************************************************************)
(* C19: SetNameController succeeds if and only if the sender is the         *)
(* authoritative owner: the owner in Valid or TransitionDelay, the          *)
(* name_owner (previous_owner) in CounterDelay.  A bid holder who is not    *)
(* the name owner is rejected with Unauthorized, so on a freshly bid new    *)
(* name nobody can set the controller before begin_time + counter_delay;    *)
(* a successful call changes only the controller field.                     *)
(***************************************************************************)
SenderIsAuthoritativeOwner ==
    \/ /\ PreStatus.kind \in {"Valid", "TransitionDelay"}
       /\ last.sender = Pre.owner
    \/ /\ PreStatus.kind = "CounterDelay"
       /\ Pre.previous_owner = Some(last.sender)

C19_ControllerByAuthoritativeOwner ==
    (Called("SetNameController") /\ HadRecord) =>
        /\ last.err = "Ok" <=> SenderIsAuthoritativeOwner
        /\ last.err \in {"Ok", "Unauthorized"}
        /\ last.err = "Ok" =>
              Post = [Pre EXCEPT !.controller = Some(last.addr)]
        /\ last.err # "Ok" => name_states = before
        /\ ( /\ Pre.previous_owner = None
             /\ PreAge < Cfg.counter_delay_secs ) => last.err = "Unauthorized"

(* Inside a counter window the name owner, who had been outbid, set the
   controller. *)
C19_Witness ==
    /\ Succeeded("SetNameController")
    /\ PreStatus.kind = "CounterDelay"
    /\ Pre.owner # last.sender
    /\ Pre.controller = None
    /\ Post.controller = Some(last.addr)

(***************************************************************************)
(* C20: the resolver's SetNameValue succeeds if and only if the auction     *)
(* reports controller = Some(sender) for the name and its expire_time is    *)
(* None or strictly greater than now; an owner who is not the controller    *)
(* and everybody on a name without controller get Unauthorized, and a call  *)
(* at exactly now = expire_time fails with NameExpired.                     *)
(***************************************************************************)
PreNeverExpires == Pre.rate = 0

C20_SetValueByLiveController ==
    Called("SetNameValue") =>
        /\ last.err = "Ok"
              <=> ( /\ HadRecord
                    /\ Pre.controller = Some(last.sender)
                    /\ (PreNeverExpires \/ PreExpireTime > now) )
        /\ (HadRecord /\ Pre.controller # Some(last.sender))
              => last.err = "Unauthorized"
        /\ ( /\ HadRecord
             /\ Pre.controller = Some(last.sender)
             /\ ~PreNeverExpires
             /\ PreExpireTime <= now ) => last.err = "NameExpired"
        /\ last.err = "Ok" => name_values[last.name] = last.value

(* The controller, who is not the owner, set a value on a name that
   expires later. *)
C20_Witness ==
    /\ Succeeded("SetNameValue")
    /\ last.sender # Pre.owner
    /\ ~PreNeverExpires
    /\ PreExpireTime > now
    /\ name_values[last.name] = Some("test_value")

(***************************************************************************)
(* C21: every auction operation either succeeds or fails with one of the    *)
(* typed errors of ContractError; a failing invocation leaves the config    *)
(* and every name record as they were and emits no message; no invocation   *)
(* aborts with a panic or an untyped arithmetic failure.                    *)
(***************************************************************************)
AuctionOps == Writes \cup {"Instantiate"}

TypedErrors ==
    {"Std", "Overflow", "Unauthorized", "Unfunded", "InvalidConfig",
     "ClosedForBids", "BidRateTooLow", "BidDepositTooLow",
     "BidInvalidInterval", "UnexpectedState"}

C21_FailureLeavesStateAlone ==
    (last.op \in AuctionOps /\ last.err # "Ok") =>
        /\ name_states = before
        /\ last.messages = << >>
        /\ last.op = "Instantiate" => config = None

C21_TypedErrorOrSuccess ==
    last.op \in AuctionOps =>
        /\ last.err \in TypedErrors \cup {"Ok"}
        /\ C21_FailureLeavesStateAlone

(* A bid with the largest rate aborted in deposit_from_seconds_ceil. *)
C21_Witness ==
    /\ Called("BidName")
    /\ last.rate = UintMax
    /\ last.err = "Panic"

(***************************************************************************)
(* C22: rent conservation.  Over a successful bid at time now on a live     *)
(* record A, with spent = ceil((now - A.begin_time) * A.rate / RATE_PERIOD), *)
(* refund the amount sent to the outbid holder and forwarded the amount     *)
(* sent to the collector:                                                   *)
(*   as claimed,  A.begin_deposit = spent + refund + forwarded;             *)
(*   in the code, A.begin_deposit = spent + refund, and it is the new       *)
(*   bidder's deposit that is split: refund + forwarded = attached funds.   *)
(***************************************************************************)
RECURSIVE SumSentTo(_, _)
SumSentTo(messages, to) ==
    IF messages = << >>
    THEN 0
    ELSE (IF Head(messages).to_address = to THEN Head(messages).amount ELSE 0)
            + SumSentTo(Tail(messages), to)

Spent == CeilDiv(PreAge * Pre.rate, RATE_SEC_DENOM)
Refunded == SumSentTo(last.messages, Pre.owner)
Forwarded == SumSentTo(last.messages, Cfg.collector_addr)

C22_DepositIsSpentRefundedForwarded ==
    (BidOnLiveName /\ last.err = "Ok") =>
        Pre.begin_deposit = Spent + Refunded + Forwarded

C22_DepositIsSpentPlusRefund ==
    (BidOnLiveName /\ last.err = "Ok") =>
        /\ Pre.begin_deposit = Spent + Refunded
        /\ Refunded + Forwarded = last.funds

(* The outbid holder had spent part of the deposit and got the rest back. *)
C22_Witness ==
    /\ BidOnLiveName
    /\ last.err = "Ok"
    /\ Spent > 0
    /\ Refunded > 0
    /\ Forwarded > 0

(***************************************************************************)
(* C23: for every reachable record and every time now, the remaining        *)
(* deposit is begin_deposit - ceil((now - begin_time) * rate / RATE_PERIOD), *)
(* or zero when the rounded-up rent exceeds begin_deposit, and computing it *)
(* never fails, also for names that expired long ago.                       *)
(***************************************************************************)
C23_CurrentDepositSaturates ==
    (Called("GetNameState") /\ HadRecord) =>
        /\ last.err = "Ok"
        /\ Unwrap(last.response).current_deposit = RefundOwed

(* While the rent does not exceed the deposit the remaining deposit is
   computed as claimed. *)
C23_CurrentDepositWhileCovered ==
    (Called("GetNameState") /\ HadRecord /\ Spent <= Pre.begin_deposit) =>
        /\ last.err = "Ok"
        /\ Unwrap(last.response).current_deposit = Pre.begin_deposit - Spent

(* The query was made on a record whose rounded-up rent exceeds its
   deposit. *)
C23_Witness ==
    /\ Called("GetNameState")
    /\ HadRecord
    /\ Spent > Pre.begin_deposit
    /\ last.err = "Panic"

(***************************************************************************)
(* C24: GetNameState reports the ownership of the phase at query time:      *)
(* name_owner is None when the name is Expired, bid_owner is None only      *)
(* when it is Expired, both are the owner in Valid and TransitionDelay, and *)
(* in CounterDelay name_owner is previous_owner and bid_owner the current   *)
(* bid holder.                                                              *)
(***************************************************************************)
C24_OwnershipOf(response) ==
    /\ PreStatus.kind = "Expired" => response.name_owner = None
    /\ response.bid_owner = None <=> PreStatus.kind = "Expired"
    /\ PreStatus.kind \in {"Valid", "TransitionDelay"} =>
          /\ response.name_owner = Some(Pre.owner)
          /\ response.bid_owner = Some(Pre.owner)
    /\ PreStatus.kind = "CounterDelay" =>
          /\ response.name_owner = Pre.previous_owner
          /\ response.bid_owner = Some(Pre.owner)

C24_OwnershipByPhaseWhenReturned ==
    (Called("GetNameState") /\ HadRecord /\ last.err = "Ok") =>
        C24_OwnershipOf(Unwrap(last.response))

(* The query was made on a name that is Expired and reported nothing. *)
C24_Witness ==
    /\ Called("GetNameState")
    /\ HadRecord
    /\ PreStatus.kind = "Expired"
    /\ last.err = "Panic"

(* The query returned in the counter delay of a bid on an owned name, and
   at the expiry time of a name. *)
C24_WitnessCounterDelay ==
    /\ Called("GetNameState")
    /\ last.err = "Ok"
    /\ PreStatus.kind = "CounterDelay"
    /\ Unwrap(last.response).name_owner # None
    /\ Unwrap(last.response).name_owner # Unwrap(last.response).bid_owner

C24_WitnessExpired ==
    /\ Called("GetNameState")
    /\ last.err = "Ok"
    /\ PreStatus.kind = "Expired"

(***************************************************************************)
(* Vocabulary of the root collector's properties.                           *)
(***************************************************************************)
CollectorState == Unwrap(collector_state)
CollectorPre == Unwrap(collector_before)
CollectorCfg == Unwrap(collector_config)

CollectorCalled(op) == collector_last.op = op

CollectorSucceeded(op) == collector_last.op = op /\ collector_last.err = "Ok"

(* Dividend owed to an account: cached dividend plus
   staked * (state.multiplier - account.multiplier), rounded down *)
Owed(address) == dividend(stake_states[address], CollectorState.multiplier)

RECURSIVE SumOwed(_)
SumOwed(S) ==
    IF S = {} THEN 0
    ELSE LET a == CHOOSE x \in S : TRUE IN Owed(a) + SumOwed(S \ {a})

TotalOwed == SumOwed(DOMAIN stake_states)

(* Stablecoins the contract holds: deposits minus dividends paid out *)
Held == ledger.deposited - ledger.dividends_withdrawn

(***************************************************************************)
(* C25: in every reachable state the dividends owed to all accounts plus    *)
(* state.residual never exceed the total deposits minus the total           *)
(* dividends withdrawn.                                                     *)
(***************************************************************************)
C25_DividendSolvency ==
    IsSome(collector_state) => TotalOwed + CollectorState.residual <= Held

(***************************************************************************)
(* C26: when accounts X and Y hold x and y staked tokens through a Deposit  *)
(* of D with total_staked = x + y, the increases of their dividends are in  *)
(* the ratio x : y within one unit each, and the two increases plus the     *)
(* change of residual add up to D.                                          *)
(***************************************************************************)
OwedBefore(address) == dividend(stake_states[address], CollectorPre.multiplier)

Increase(address) == Owed(address) - OwedBefore(address)

Staked(address) == stake_states[address].staked_amount

(* X and Y are the only stakers while the Deposit is made *)
DepositSharedBy(X, Y) ==
    /\ CollectorSucceeded("Deposit")
    /\ X # Y
    /\ {X, Y} \subseteq DOMAIN stake_states
    /\ CollectorPre.total_staked = Staked(X) + Staked(Y)

SharesInRatio(X, Y) ==
    LET cross == Increase(X) * Staked(Y) - Increase(Y) * Staked(X)
    IN  /\ cross <= Staked(X) + Staked(Y)
        /\ 0 - cross <= Staked(X) + Staked(Y)

SharesAddUp(X, Y) ==
    Increase(X) + Increase(Y)
        + (CollectorState.residual - CollectorPre.residual)
    = collector_last.amount

C26_DividendFairness ==
    \A X, Y \in Stakers :
        DepositSharedBy(X, Y) => SharesInRatio(X, Y) /\ SharesAddUp(X, Y)

(* The ratio alone is kept by every Deposit. *)
C26_DividendsInRatio ==
    \A X, Y \in Stakers : DepositSharedBy(X, Y) => SharesInRatio(X, Y)

C26_Witness ==
    /\ DepositSharedBy("staker_1", "staker_2")
    /\ Staked("staker_1") = 2
    /\ Staked("staker_2") = 1
    /\ Increase("staker_1") = 1
    /\ Increase("staker_2") = 1
    /\ CollectorState.residual = CollectorPre.residual
    /\ collector_last.amount = 1

(***************************************************************************)
(* C27: after UnstakeTokens(a) at time t and no other activity on the       *)
(* account, WithdrawTokens(a) fails with InsufficientTokens at every time   *)
(* t' < t + unstake_delay and succeeds at every time t' >= t +              *)
(* unstake_delay, the boundary included.                                    *)
(***************************************************************************)
(* The last invocation was a successful UnstakeTokens(amount) of the
   account: nothing has touched the account since. *)
UnstakeWasLast(address, amount) ==
    /\ CollectorSucceeded("UnstakeTokens")
    /\ collector_last.sender = address
    /\ collector_last.amount = amount

(* The time t of that UnstakeTokens *)
UnstakedAt(address) == Unwrap(stake_states[address].unstaking_begin_time)

(* This step is WithdrawTokens(amount) of the account, at time now. *)
WithdrawTokensStep(address, amount) ==
    /\ collector_last'.op = "WithdrawTokens"
    /\ collector_last'.sender = address
    /\ collector_last'.amount = amount

WithdrawAfterUnstake(address, amount) ==
    UnstakeWasLast(address, amount) /\ WithdrawTokensStep(address, amount)

C27_WithdrawOnlyAfterDelay ==
    [][ \A address \in Stakers, amount \in 1 .. MaxStake :
          WithdrawAfterUnstake(address, amount) =>
              collector_last'.err =
                  IF now < UnstakedAt(address) + CollectorCfg.unstake_delay
                  THEN "InsufficientTokens"
                  ELSE "Ok" ]_vars

(* C27, amended: before t + unstake_delay the withdrawal fails with
   InsufficientTokens unless the account holds at least a tokens that
   were unstaked earlier, and then it succeeds; from t + unstake_delay on
   it succeeds. *)
C27_WithdrawAfterDelayOrFromUnstaked ==
    [][ \A address \in Stakers, amount \in 1 .. MaxStake :
          WithdrawAfterUnstake(address, amount) =>
              collector_last'.err =
                  IF /\ now < UnstakedAt(address) + CollectorCfg.unstake_delay
                     /\ stake_states[address].unstaked_amount < amount
                  THEN "InsufficientTokens"
                  ELSE "Ok" ]_vars

(* The only token of the account is withdrawn at the boundary: it was
   unstaked at time 0 and the withdrawal at unstake_delay succeeds. *)
C27_Witness ==
    /\ CollectorSucceeded("WithdrawTokens")
    /\ collector_last.sender = "staker_1"
    /\ collector_last.amount = 1
    /\ now = CollectorCfg.unstake_delay
    /\ ledger.staked_in["staker_1"] = 1
    /\ ledger.withdrawn_out["staker_1"] = 1

(* A withdrawal succeeds in the block of an UnstakeTokens. *)
C27_WitnessEarly ==
    /\ CollectorSucceeded("WithdrawTokens")
    /\ collector_last.sender = "staker_1"
    /\ stake_states["staker_1"].unstaking_begin_time = Some(now)
    /\ CollectorCfg.unstake_delay > 0

(***************************************************************************)
(* C28: state.multiplier never decreases: a Deposit does not decrease it    *)
(* and no other operation changes it; and in every reachable state the      *)
(* multiplier stored in each account is at most state.multiplier.           *)
(***************************************************************************)
C28_MultiplierMonotone ==
    /\ IsSome(collector_before) =>
          /\ CollectorPre.multiplier <= CollectorState.multiplier
          /\ ~CollectorCalled("Deposit") =>
                CollectorState.multiplier = CollectorPre.multiplier
    /\ \A address \in DOMAIN stake_states :
          stake_states[address].multiplier <= CollectorState.multiplier

(* A second Deposit has raised the multiplier above the one stored in an
   account that staked after the first. *)
C28_Witness ==
    /\ CollectorSucceeded("Deposit")
    /\ 0 < CollectorPre.multiplier
    /\ CollectorPre.multiplier < CollectorState.multiplier
    /\ \E address \in DOMAIN stake_states :
          /\ 0 < stake_states[address].multiplier
          /\ stake_states[address].multiplier < CollectorState.multiplier

(***************************************************************************)
(* C29: in every reachable state each account's staked + unstaking +        *)
(* unstaked tokens equal the tokens it staked in minus the tokens it        *)
(* withdrew, and state.total_staked is the sum of the staked amounts of     *)
(* all accounts (unstaking and unstaked tokens are not counted).            *)
(***************************************************************************)
TokensOf(address) ==
    IF address \in DOMAIN stake_states
    THEN stake_states[address].staked_amount
            + stake_states[address].unstaking_amount
            + stake_states[address].unstaked_amount
    ELSE 0

RECURSIVE SumStaked(_)
SumStaked(S) ==
    IF S = {} THEN 0
    ELSE LET a == CHOOSE x \in S : TRUE IN Staked(a) + SumStaked(S \ {a})

C29_TokenConservation ==
    /\ \A address \in Stakers :
          TokensOf(address)
              = ledger.staked_in[address] - ledger.withdrawn_out[address]
    /\ IsSome(collector_state) =>
          CollectorState.total_staked = SumStaked(DOMAIN stake_states)

(* Both accounts exist; one of them has a token staked, the other a token
   unstaking and a token withdrawn. *)
C29_Witness ==
    /\ DOMAIN stake_states = Stakers
    /\ Staked("staker_2") = 1
    /\ Staked("staker_1") = 0
    /\ stake_states["staker_1"].unstaking_amount = 1
    /\ ledger.withdrawn_out["staker_1"] = 1
    /\ CollectorState.total_staked = 1

(***************************************************************************)
(* C30: a Deposit made while total_staked = 0 leaves the multiplier         *)
(* unchanged and adds the whole amount to residual; a Deposit made once     *)
(* somebody has staked distributes the accumulated residual together with   *)
(* the amount deposited: the multiplier rises by (residual + amount) /      *)
(* total_staked, rounded down.                                              *)
(***************************************************************************)
DepositedWithNothingStaked ==
    CollectorSucceeded("Deposit") /\ CollectorPre.total_staked = 0

DepositedToStakers ==
    CollectorSucceeded("Deposit") /\ CollectorPre.total_staked > 0

(* What the Deposit found in residual plus what it brought *)
Pool == CollectorPre.residual + collector_last.amount

C30_DepositAccumulatesThenDistributes ==
    /\ DepositedWithNothingStaked =>
          /\ CollectorState.multiplier = CollectorPre.multiplier
          /\ CollectorState.residual = Pool
    /\ DepositedToStakers =>
          LET delta == CollectorState.multiplier - CollectorPre.multiplier
              total == CollectorPre.total_staked
          IN  /\ delta * total <= Pool * DECIMAL_FRACTIONAL
              /\ Pool * DECIMAL_FRACTIONAL < (delta + 1) * total

(* The first Deposit after a stake finds the residual of a Deposit made
   while nothing was staked. *)
C30_Witness ==
    /\ DepositedToStakers
    /\ CollectorPre.multiplier = 0
    /\ CollectorPre.residual > 0
    /\ CollectorState.multiplier * CollectorPre.total_staked
          > collector_last.amount * DECIMAL_FRACTIONAL

C30_WitnessNothingStaked ==
    /\ DepositedWithNothingStaked
    /\ CollectorPre.residual > 0
    /\ CollectorState.residual = CollectorPre.residual + collector_last.amount

(***************************************************************************)
(* C31: staking never earns retroactively.  A Stake, first or additional,   *)
(* leaves the dividend owed to the staker unchanged, and a Deposit made     *)
(* while an account has no staked tokens credits that account nothing.      *)
(***************************************************************************)
OwedOrNothing(address) ==
    IF address \in DOMAIN stake_states THEN Owed(address) ELSE 0

(* This step is a Stake for the account. *)
StakeStep(address) ==
    ledger'.staked_in[address] > ledger.staked_in[address]

(* This step is a Deposit. *)
DepositStep == ledger'.deposited > ledger.deposited

OwedNext(address) ==
    dividend(stake_states'[address], Unwrap(collector_state').multiplier)

C31_StakeEarnsNothingAtOnce ==
    [][ \A address \in Stakers :
          /\ StakeStep(address) => OwedNext(address) = OwedOrNothing(address)
          /\ ( /\ DepositStep
               /\ address \in DOMAIN stake_states
               /\ Staked(address) = 0 ) =>
                 OwedNext(address) = Owed(address) ]_vars

(* An account that is owed a dividend has just staked another token. *)
C31_Witness ==
    /\ CollectorSucceeded("Stake")
    /\ collector_last.staker = "staker_1"
    /\ Staked("staker_1") = 2
    /\ Owed("staker_1") > 0
    /\ stake_states["staker_1"].multiplier > 0

(***************************************************************************)
(* C32: WithdrawDividends fails with InsufficientFunds when the caller is   *)
(* owed nothing (no account, or all withdrawn already) and stores nothing;  *)
(* otherwise it pays exactly the dividend owed, leaves the account with     *)
(* dividend 0 and the multiplier of the state, and changes neither the      *)
(* tokens of the account, nor the State, nor any other account.             *)
(***************************************************************************)
(* This step is an invocation of op by the account, at time now. *)
CollectorStep(op, address) ==
    /\ now' = now
    /\ collector_last'.op = op
    /\ collector_last'.sender = address

(* The tokens of a stake state as they stand at time now *)
TokensAt(stake_state) ==
    LET folded == update_unstaked_amount(stake_state, now,
                                         CollectorCfg.unstake_delay)
    IN  << folded.staked_amount, folded.unstaking_amount,
           folded.unstaked_amount, folded.unstaking_begin_time >>

C32_WithdrawDividendsPaysWhatIsOwed ==
    [][ \A address \in Stakers :
          CollectorStep("WithdrawDividends", address) =>
              IF OwedOrNothing(address) = 0
              THEN /\ collector_last'.err = "InsufficientFunds"
                   /\ collector_last'.sent = 0
                   /\ UNCHANGED << stake_states, collector_state >>
              ELSE /\ collector_last'.err = "Ok"
                   /\ collector_last'.sent = Owed(address)
                   /\ stake_states'[address].dividend = 0
                   /\ stake_states'[address].multiplier
                         = CollectorState.multiplier
                   /\ TokensAt(stake_states'[address])
                         = TokensAt(stake_states[address])
                   /\ collector_state' = collector_state
                   /\ DOMAIN stake_states' = DOMAIN stake_states
                   /\ \A other \in DOMAIN stake_states \ {address} :
                         stake_states'[other] = stake_states[other] ]_vars

(* An account has been paid while the other one is still owed a dividend
   and its own snapshot was behind the multiplier of the state. *)
C32_Witness ==
    /\ CollectorSucceeded("WithdrawDividends")
    /\ collector_last.sender = "staker_1"
    /\ collector_last.sent > 0
    /\ "staker_2" \in DOMAIN stake_states
    /\ Owed("staker_2") > 0
    /\ Owed("staker_1") = 0

(* A second WithdrawDividends right after the first is refused. *)
C32_WitnessJustWithdrawn ==
    /\ CollectorCalled("WithdrawDividends")
    /\ collector_last.err = "InsufficientFunds"
    /\ collector_last.sender = "staker_1"
    /\ ledger.dividends_withdrawn > 0
    /\ "staker_2" \notin DOMAIN stake_states

(***************************************************************************)
(* C33: GetAllNameStates returns names in ascending byte order, at most     *)
(* min(limit, 30) of them with limit defaulting to 10, beginning with the   *)
(* first stored name strictly greater than start_after and leaving out     *)
(* none up to the last one returned; and paging with the last name          *)
(* returned as the next start_after, until a page comes back empty, visits  *)
(* every stored name after the first start_after exactly once.              *)
(***************************************************************************)
EffectiveLimit ==
    LET asked == IF IsSome(probe.limit) THEN Unwrap(probe.limit) ELSE 10
    IN  IF asked < 30 THEN asked ELSE 30

(* The stored names strictly greater than an optional name *)
StoredAfter(start_after) ==
    { k \in DOMAIN name_states :
        ~IsSome(start_after) \/ BytesLess(Unwrap(start_after), k) }

PageIsTheNextNames ==
    LET page == probe.names
        after == StoredAfter(probe.start_after)
    IN  /\ probe.err = "Ok"
        /\ \A i \in 1 .. Len(page) : page[i] \in after
        /\ \A i, j \in 1 .. Len(page) : i < j => BytesLess(page[i], page[j])
        /\ Len(page) = IF Cardinality(after) < EffectiveLimit
                       THEN Cardinality(after) ELSE EffectiveLimit
        /\ \A k \in after :
              (\E i \in 1 .. Len(page) : page[i] = k)
                 \/ \A i \in 1 .. Len(page) : BytesLess(page[i], k)

PagingVisitsEachOnce ==
    (EffectiveLimit > 0 /\ probe.names = << >>) =>
        /\ \A i, j \in 1 .. Len(probe.seen) :
              i # j => probe.seen[i] # probe.seen[j]
        /\ { probe.seen[i] : i \in 1 .. Len(probe.seen) }
              = StoredAfter(probe.first_start_after)

C33_AllNameStatesPaging ==
    probe.queried => PageIsTheNextNames /\ PagingVisitsEachOnce

(* A walk in pages of two that began after a stored name has reached the
   end, having seen a name and a longer one that begins with it. *)
C33_Witness ==
    /\ probe.queried
    /\ probe.limit = Some(2)
    /\ probe.names = << >>
    /\ IsSome(probe.first_start_after)
    /\ Unwrap(probe.first_start_after) \in DOMAIN name_states
    /\ Len(probe.seen) > 4
    /\ \E i \in 1 .. Len(probe.seen) - 1 :
          probe.seen[i + 1] = Append(probe.seen[i], 0)

(* A query without limit on a bucket of more than ten names, and one
   asking for more than thirty on a bucket that has them. *)
C33_WitnessDefaultLimit ==
    /\ probe.queried
    /\ probe.limit = None
    /\ Len(probe.names) = 10
    /\ Cardinality(StoredAfter(probe.start_after)) > 10

C33_WitnessClamped ==
    /\ probe.queried
    /\ probe.limit = Some(31)
    /\ Len(probe.names) = 30
    /\ Cardinality(StoredAfter(probe.start_after)) > 30

(***************************************************************************)
(* C34: with no writes to a record, as now increases from begin_time the    *)
(* phase only moves forward in the order CounterDelay, TransitionDelay,     *)
(* Valid, Expired: phases may be skipped, none is entered again.            *)
(***************************************************************************)
PhaseRank(kind) ==
    CASE kind = "CounterDelay" -> 1
      [] kind = "TransitionDelay" -> 2
      [] kind = "Valid" -> 3
      [] kind = "Expired" -> 4

(* The times at which a record is looked at: its begin_time, the ends of
   its delays and of its lease, the second before each of them, and a late
   time.  The phase is constant in between. *)
PhaseTimes(record) ==
    LET ends == { counter_delay_end(record, Cfg),
                  transition_delay_end(record, Cfg),
                  record.transition_reference_time + Cfg.counter_delay_secs
                      + Cfg.transition_delay_secs }
                \cup (IF IsSome(expire_time(record))
                      THEN { Unwrap(expire_time(record)) } ELSE {})
        after == record.begin_time + (MaxTicks + 2) * Tick
    IN  { t \in { record.begin_time, after } \cup ends
                    \cup { e - 1 : e \in ends } :
            t >= record.begin_time }

PhaseAt(record, t) == owner_status(record, Cfg, t).kind

C34_PhaseOnlyMovesForward ==
    \A name \in DOMAIN name_states :
        LET rank == [ t \in PhaseTimes(name_states[name]) |->
                        PhaseRank(PhaseAt(name_states[name], t)) ]
        IN  \A t1, t2 \in DOMAIN rank : t1 <= t2 => rank[t1] <= rank[t2]

(* A record that goes through all four phases. *)
C34_Witness ==
    \E name \in DOMAIN name_states :
        \A kind \in {"CounterDelay", "TransitionDelay", "Valid", "Expired"} :
            \E t \in PhaseTimes(name_states[name]) :
                PhaseAt(name_states[name], t) = kind

(* A lease shorter than the counter delay: CounterDelay, then Expired. *)
C34_WitnessSkips ==
    \E name \in DOMAIN name_states :
        /\ PhaseAt(name_states[name], name_states[name].begin_time)
              = "CounterDelay"
        /\ \A t \in PhaseTimes(name_states[name]) :
              PhaseAt(name_states[name], t) \in {"CounterDelay", "Expired"}
        /\ \E t \in PhaseTimes(name_states[name]) :
              PhaseAt(name_states[name], t) = "Expired"

(***************************************************************************)
(* C35: in every reachable record transition_reference_time <= begin_time   *)
(* and previous_transition_reference_time <= begin_time, whatever block     *)
(* times the invocations were given; hence at a time now >= begin_time the  *)
(* classifier never returns Expired for now being earlier than              *)
(* transition_reference_time.                                               *)
(***************************************************************************)
(* owner_status returns through its second None branch: the lease has not
   run out and yet now is earlier than transition_reference_time. *)
ExpiredBeforeTransitionReference(record, t) ==
    /\ IsSome(seconds_spent_since_bid(record, t))
    /\ ~( /\ IsSome(max_seconds(record))
          /\ Unwrap(seconds_spent_since_bid(record, t))
                >= Unwrap(max_seconds(record)) )
    /\ ~IsSome(seconds_spent_since_transition(record, t))

C35_ReferenceTimesNotAfterBegin ==
    \A name \in DOMAIN name_states :
        /\ name_states[name].transition_reference_time
              <= name_states[name].begin_time
        /\ name_states[name].previous_transition_reference_time
              <= name_states[name].begin_time
        /\ \A k \in 0 .. MaxTicks :
              ~ExpiredBeforeTransitionReference(
                  name_states[name], name_states[name].begin_time + k * Tick)

(* A bid made on a block earlier than the begin_time of the record it
   replaces, and a record whose reference times are both set, the
   transition reference being older than its begin_time. *)
C35_Witness ==
    \E name \in DOMAIN name_states :
        /\ Called("BidName")
        /\ last.err = "Ok"
        /\ name \in DOMAIN before
        /\ now < before[name].begin_time

C35_WitnessOlderReferences ==
    \E name \in DOMAIN name_states :
        /\ 0 < name_states[name].previous_transition_reference_time
        /\ 0 < name_states[name].transition_reference_time
        /\ name_states[name].transition_reference_time
              < name_states[name].begin_time

(***************************************************************************)
(* C36: a name transfer is final for the sender: after a successful         *)
(* TransferNameOwner issued by the authoritative owner of the name (owner   *)
(* in Valid/TransitionDelay, name_owner in CounterDelay) to another         *)
(* address, the sender is not the authoritative owner of the stored record  *)
(* at the time of the transfer or at any later time.                        *)
(***************************************************************************)
TransferredAway ==
    /\ Succeeded("TransferNameOwner")
    /\ SenderIsAuthoritativeOwner
    /\ last.addr # last.sender

AuthoritativeAt(record, t, address) ==
    LET status == owner_status(record, Cfg, t)
    IN  /\ status.kind \in {"Valid", "TransitionDelay", "CounterDelay"}
        /\ AuthoritativeOwner(record, status) = Some(address)

TransferTimes == { now + k * Tick + d : k \in 0 .. MaxTicks + 2, d \in {0, 1} }

C36_TransferIsFinalForSender ==
    TransferredAway =>
        \A t \in TransferTimes : ~AuthoritativeAt(Post, t, last.sender)

(***************************************************************************)
(* C37: the controller of a record is written only by a successful          *)
(* SetNameController and reset to None only by a bid on a never-seen or     *)
(* Expired name: a bid on a name that is not Expired (also one that changes *)
(* the owner), a FundName, a SetNameRate and a TransferNameOwner leave the  *)
(* controller as it was, so that the resolver still accepts the controller  *)
(* a previous owner chose.                                                  *)
(***************************************************************************)
ControllerKept ==
    /\ Post.controller = Pre.controller
    /\ IsSome(Pre.controller) =>
          ~set_value_unauthorized(Post,
                                  MessageInfo(Unwrap(Pre.controller), 0))

C37_ControllerWrittenOnlyBySetController ==
    /\ \A name \in DOMAIN name_states :
          IF name \in DOMAIN before
          THEN name_states[name].controller # before[name].controller =>
                  /\ last.name = name
                  /\ \/ /\ Succeeded("SetNameController")
                        /\ name_states[name].controller = Some(last.addr)
                     \/ /\ Succeeded("BidName")
                        /\ PreStatus.kind = "Expired"
                        /\ name_states[name].controller = None
          ELSE /\ Succeeded("BidName")
               /\ last.name = name
               /\ name_states[name].controller = None
    /\ (BidOnLiveName /\ last.err = "Ok") => ControllerKept
    /\ \A op \in {"FundName", "SetNameRate", "TransferNameOwner"} :
          Succeeded(op) => ControllerKept

(* A bid took a name that is not Expired, and that has a controller, from
   its owner. *)
C37_Witness ==
    /\ BidOnLiveName
    /\ last.err = "Ok"
    /\ IsSome(Pre.controller)
    /\ Post.owner # Pre.owner
    /\ Post.controller = Pre.controller

(* A bid on an Expired name that had a controller. *)
C37_WitnessExpired ==
    /\ Succeeded("BidName")
    /\ HadRecord
    /\ PreStatus.kind = "Expired"
    /\ IsSome(Pre.controller)
    /\ Post.controller = None

(* A transfer of a name that has a controller. *)
C37_WitnessTransfer ==
    /\ Succeeded("TransferNameOwner")
    /\ IsSome(Pre.controller)
    /\ last.addr # last.sender

(***************************************************************************)
(* C38: the phase classifier agrees with the end timestamps of the          *)
(* name-state queries: for every stored record and every time from its      *)
(* begin_time on at which it is not Expired, the phase is CounterDelay iff  *)
(* the time is before counter_delay_end, TransitionDelay iff it is from     *)
(* counter_delay_end on and before transition_delay_end, and Valid iff it   *)
(* is neither before counter_delay_end nor before transition_delay_end.     *)
(***************************************************************************)
PhaseByEnds(record, t) ==
    IF t < counter_delay_end(record, Cfg) THEN "CounterDelay"
    ELSE IF t < transition_delay_end(record, Cfg) THEN "TransitionDelay"
    ELSE "Valid"

EndTimes(record) ==
    { t \in { record.begin_time, counter_delay_end(record, Cfg),
              counter_delay_end(record, Cfg) - 1,
              transition_delay_end(record, Cfg),
              transition_delay_end(record, Cfg) - 1,
              transition_delay_end(record, Cfg) + Tick } \cup
            LaterTimes(record) :
        t >= record.begin_time }

C38_PhaseAgreesWithEndTimes ==
    \A name \in DOMAIN name_states :
        \A t \in EndTimes(name_states[name]) :
            owner_status(name_states[name], Cfg, t).kind # "Expired" =>
                owner_status(name_states[name], Cfg, t).kind
                    = PhaseByEnds(name_states[name], t)

(***************************************************************************)
(* C39: no token can be withdrawn earlier than unstake_delay seconds after  *)
(* the UnstakeTokens call that moved it out of staked, for any              *)
(* interleaving of Stake, UnstakeTokens and WithdrawTokens: the tokens an   *)
(* account has withdrawn and the ones it holds as unstaked are together at  *)
(* most the tokens of its UnstakeTokens calls that are unstake_delay old,   *)
(* and the tokens still unstaking carry the time of its last UnstakeTokens. *)
(***************************************************************************)
RECURSIVE SumCalls(_)
SumCalls(calls) ==
    IF calls = {} THEN 0
    ELSE LET c == CHOOSE x \in calls : TRUE
         IN  probe[c] + SumCalls(calls \ {c})

UnstakeCallsOf(address) == { c \in DOMAIN probe : c[1] = address }

Matured(address) ==
    SumCalls({ c \in UnstakeCallsOf(address) :
                 c[2] + CollectorCfg.unstake_delay <= now })

LastUnstakeOf(address) ==
    (CHOOSE c \in UnstakeCallsOf(address) :
        \A d \in UnstakeCallsOf(address) : d[2] <= c[2])[2]

C39_WitnessFolded ==
    \E address \in DOMAIN stake_states :
        /\ stake_states[address].unstaked_amount > 0
        /\ stake_states[address].unstaking_amount > 0
        /\ CollectorCfg.unstake_delay > 0

(***************************************************************************)
(* C40: the read-only stake view and the state update agree at every time:  *)
(* for every stake state, timestamp and unstake_delay,                      *)
(* unstaking_unstaked_amount returns the unstaking and unstaked amounts     *)
(* that update_unstaked_amount would store at that timestamp.               *)
(***************************************************************************)
ViewTimes == { k * Tick + d : k \in 0 .. MaxTicks + 1, d \in {0, 1} }

StoredAmounts(self, timestamp, unstake_delay) ==
    LET updated == update_unstaked_amount(self, timestamp, unstake_delay)
    IN  << updated.unstaking_amount, updated.unstaked_amount >>

C40_ViewAgreesWithUpdate ==
    \A address \in DOMAIN stake_states :
        \A timestamp \in ViewTimes :
            unstaking_unstaked_amount(stake_states[address], timestamp,
                                      CollectorCfg.unstake_delay)
               = StoredAmounts(stake_states[address], timestamp,
                               CollectorCfg.unstake_delay)

====
